---- MODULE Spec2Model ----
(***************************************************************************)
(* Model of kube-insight-logserver's Cassandra log store:                  *)
(*   - the query splitter (timePeriod.divideByDays, date),                 *)
(*   - the asynchronous writer pool (writerPool, writer),                  *)
(*   - LogStore.Write / LogStore.insert / LogStore.Disconnect.             *)
(*                                                                         *)
(* Three specifications share the variables:                               *)
(*   Spec       the writer pool with concurrent Write callers and a        *)
(*              Disconnect caller;                                         *)
(*   LiveSpec   the same pool while it is never stopped, with the          *)
(*              fairness of the Go scheduler;                              *)
(*   SplitSpec  divideByDays applied to every period of a bounded range.   *)
(***************************************************************************)
EXTENDS Integers, Sequences, FiniteSets, TLC

(***************************************************************************)
(* Bounds                                                                  *)
(***************************************************************************)
\* ticks (the model's nanoseconds) per hour: time is scaled down so that a
\* day is 24 * TicksPerHour ticks
TicksPerHour == 1
\* number of calendar days the sampled timestamps range over
MaxDays == 3
\* offset, in hours east of UTC, of the fabricated zone a parsed timestamp
\* with a numeric zone offset carries
FixedZoneHours == 2

(***************************************************************************)
(* time.Time: an instant (ticks since the zero time) and a *Location.       *)
(* Go's == on time.Time compares the Location pointer as well as the       *)
(* instant; Before/Equal compare the instant only.                         *)
(***************************************************************************)
Nanosecond == 1
Hour == TicksPerHour * Nanosecond
Locs == {"UTC", "Fixed"}
ZoneOffset(loc) == IF loc = "UTC" THEN 0 ELSE FixedZoneHours * Hour
Times == [abs : 0 .. (MaxDays * 24 * Hour - 1), loc : Locs]

\* t.Add(d): same location, instant moved by d
Add(t, d) == [abs |-> t.abs + d, loc |-> t.loc]
\* t.Before(u): instants only
Before(t, u) == t.abs < u.abs
\* t.Truncate(d): rounds the instant down to a multiple of d since the zero
\* time; the location is kept
Truncate(t, d) == [abs |-> t.abs - (t.abs % d), loc |-> t.loc]
\* t.IsZero(): the instant is the zero time, in whatever location
IsZero(t) == t.abs = 0
\* t.Format("2006-01-02"): the calendar day of t in t's own location,
\* represented by the day's number
FormatDate(t) == << "date", (t.abs + ZoneOffset(t.loc)) \div (24 * Hour) >>

(***************************************************************************)
(* Query splitter                                                          *)
(***************************************************************************)
date(t) == Truncate(t, 24 * Hour)

RECURSIVE divideLoop(_, _, _)
divideLoop(t, p, dayPeriods) ==
    IF Before(date(t), date(p.end))
    THEN divideLoop(Add(date(t), 24 * Hour), p,
                    Append(dayPeriods,
                           [start |-> t,
                            end   |-> Add(Add(date(t), 24 * Hour), -1 * Nanosecond)]))
    ELSE Append(dayPeriods, [start |-> date(p.end), end |-> p.end])

divideByDays(p) ==
    IF date(p.start) = date(p.end)
    THEN << p >>
    ELSE divideLoop(p.start, p, << >>)

VARIABLES
    period,       \* the timePeriod divideByDays is called on
    dayPeriods,   \* its return value
    spc           \* "call" before the call, "done" after

splitVars == << period, dayPeriods, spc >>

VARIABLES
    ventry,       \* the LogEntry that Validate is called on
    vret,         \* its return value
    vpc           \* "call" before the call, "done" after

validateVars == << ventry, vret, vpc >>

VARIABLES
    options,      \* the Options the LogStore was made with
    driverCalls,  \* the driver calls LogStore.Connect has made, with results
    connret,      \* what LogStore.Connect returned
    connpc        \* where LogStore.Connect is: "call", "keyspace", "table", "done"

connectVars == << options, driverCalls, connret, connpc >>

VARIABLES
    query,        \* the Query that LogStore.Query is called with
    subQueries,   \* what querySplitter.Split returned
    qi,           \* index of the next sub-query of the loop
    queryCalls,   \* the driver Query calls made, with placeholders and results
    logRows,      \* the rows collected so far
    qret,         \* the (result, error) pair LogStore.Query returned
    qpc           \* where LogStore.Query is: "call", "loop", "done"

queryVars == << query, subQueries, qi, queryCalls, logRows, qret, qpc >>

VARIABLES
    vquery,       \* the Query that Validate is called on
    vqret,        \* its return value
    vqpc          \* "call" before the call, "done" after

queryValidateVars == << vquery, vqret, vqpc >>

\* the variables of the validation functions of queries and options and of
\* the HTTP server
VARIABLES
    vopts,        \* the Options that Validate is called on
    voret,        \* its return value
    vopc          \* "call" before the call, "done" after

optionsValidateVars == << vopts, voret, vopc >>

VARIABLES
    hreq,         \* the request a handler of the HTTPServer is called with
    hpc,          \* where the handler is: "call", "ready", "store", "done"
    storeCalls,   \* the LogStore calls the handler has made, with results
    resp          \* the response the handler has written

handlerVars == << hreq, hpc, storeCalls, resp >>

VARIABLES
    mreq,             \* per request: method, path and the handler's calls on ww
    mpc,              \* per request: where Intercept is
    statusCode,       \* per request: ww.statusCode
    elapsed,          \* per request: elapsed
    snapshot,         \* per request: what Metrics() returned to the handler
    TotalRequests,    \* mw.TotalRequests
    SumResponseTime,  \* mw.SumResponseTime
    AvgResponseTime,  \* mw.AvgResponseTime
    updateMutex       \* mw.updateMutex: the request holding it, 0 when free

metricsVars == << mreq, mpc, statusCode, elapsed, snapshot, TotalRequests,
                 SumResponseTime, AvgResponseTime, updateMutex >>

VARIABLES
    session,      \* CQLDriver.session: "nil" before Connect, else "set"
    probe,        \* the last Reachable call: its result and its session
    rret,         \* what the last LogStore.Ready returned
    dqret         \* what the last CQLDriver.Query returned

driverVars == << session, probe, rret, dqret >>

restVars == << queryValidateVars, optionsValidateVars, handlerVars, metricsVars,
              driverVars >>

\* every variable that is not the writer pool's
otherVars == << splitVars, validateVars, connectVars, queryVars, restVars >>

Periods == [start : Times, end : Times]

(***************************************************************************)
(* Bounds of the writer-pool model                                         *)
(***************************************************************************)
\* options.WriteConcurrency: number of writer goroutines
WriteConcurrency == 2
\* options.WriteBufferSize: capacity of the work channel
WriteBufferSize == 1
\* number of goroutines that call LogStore.Write
NumCallers == 2
\* longest batch passed to LogStore.Write
MaxBatch == 2
\* total number of LogStore.Write calls
MaxWrites == 2
\* number of LogStore.Disconnect calls
MaxDisconnects == 2

Writers == 1 .. WriteConcurrency
Callers == 1 .. NumCallers
\* identities of the result channels made by writerPool.write
Chans == 1 .. (MaxWrites * MaxBatch)

(***************************************************************************)
(* error values                                                            *)
(***************************************************************************)
Nil == [kind |-> "nil", op |-> 0, wrap |-> "none"]
\* fmt.Errorf("write rejected: writerPool has been stopped")
WriteRejected == [kind |-> "write rejected", op |-> 0, wrap |-> "none"]
\* the error value returned by the driver Execute call made for channel c
DriverErr(c) == [kind |-> "driver", op |-> c, wrap |-> "none"]
InsertError(err) == [err EXCEPT !.wrap = "InsertError"]
\* a Write call that has not returned
NoReturn == [kind |-> "none", op |-> 0, wrap |-> "none"]

(***************************************************************************)
(* log entries                                                             *)
(***************************************************************************)
LogEntry(log, time) ==
    [Kubernetes |-> [Namespace |-> "ns", PodName |-> "nginx-abcde",
                     ContainerName |-> "nginx", PodID |-> "pod-id",
                     DockerID |-> "docker-id", Host |-> "host",
                     Labels |-> "labels"],
     Log |-> log, Stream |-> "stdout", Time |-> time]

\* the k-th sample entry: the entries of a batch differ in text and time,
\* odd ones carry UTC and even ones a fabricated zone
SampleEntry(k) ==
    LogEntry(<< "event", k >>,
             [abs |-> (k * 11 * Hour) % (MaxDays * 24 * Hour),
              loc |-> IF k % 2 = 1 THEN "UTC" ELSE "Fixed"])

\* the batches passed to LogStore.Write: every length from 0 to MaxBatch
Batches == { [k \in 1 .. n |-> SampleEntry(k)] : n \in 0 .. MaxBatch }

insertStatement == "INSERT INTO keyspace.logtable (...) VALUES (?, ?, ?, ?, ?, ?, ?, ?, ?, ?, ?)"

\* the placeholders LogStore.insert passes to writerPool.write
insertPlaceholders(logEntry) ==
    << logEntry.Kubernetes.Namespace, logEntry.Kubernetes.PodName,
       logEntry.Kubernetes.ContainerName, FormatDate(logEntry.Time),
       logEntry.Time, logEntry.Log, logEntry.Stream,
       logEntry.Kubernetes.PodID, logEntry.Kubernetes.DockerID,
       logEntry.Kubernetes.Host, logEntry.Kubernetes.Labels >>

\* every iteration passing the address of the same loop variable, read late:
\* each insert carries the values of the last entry
insertLastEntry(batch, i) == insertPlaceholders(batch[Len(batch)])

\* the i-th iteration of the submit loop of LogStore.Write: c.insert(&logEntry)
insert(batch, i) == insertPlaceholders(batch[i])

insertOperation(placeholders, c) ==
    [insert |-> [insertStatement |-> insertStatement, placeholders |-> placeholders],
     resultChan |-> c]
NoOp == [insert |-> [insertStatement |-> "", placeholders |-> << >>], resultChan |-> 0]

\* make(writeResultChan): an unbuffered result channel has no slot
ResultChanUnbuffered == Len(<< >>)

\* make(writeResultChan, 1)
ResultChanCap == 1

VARIABLES
    started,        \* writerPool.started
    workChan,       \* writerPool.workChan: queue of insertOperations
    stopChan,       \* writer.stopChan of each writer: TRUE when closed
    wpc,            \* position of each writer goroutine
    wop,            \* the insertOperation a writer has received
    resultChan,     \* contents of each result channel
    callNo,         \* the number of the caller's Write call (names its channels)
    cpc,            \* position of each Write caller
    entries,        \* the batch of the caller's Write call
    resultChannels, \* LogStore.Write's resultChannels, as filled so far
    creq,           \* the insertRequest a caller is sending on workChan
    ai,             \* index of the result channel Write awaits
    ret,            \* return value of the caller's last Write call
    writeCalls,     \* number of Write calls made
    dpc,            \* position of the Disconnect caller
    di,             \* index of the writer that writerPool.stop stops next
    disconnectCalls,\* number of Disconnect calls made
    closeCalls,     \* what each driver Close call made so far returned
    dret,           \* what the last LogStore.Disconnect returned
    panicked,       \* the process died of a runtime panic
    observed,       \* history: pool.started as read by write() for a channel
    execCalls,      \* history: the driver Execute calls made for a channel
    posts           \* history: the values sent on a channel

poolVars == << started, workChan, stopChan, wpc, wop, resultChan, callNo,
               cpc, entries, resultChannels, creq, ai, ret, writeCalls,
               dpc, di, disconnectCalls, closeCalls, dret, panicked,
               observed, execCalls, posts >>

\* NewLogStore -> newWriterPool: the writers are started, the pool is started
PoolInit ==
    /\ started = TRUE
    /\ workChan = << >>
    /\ stopChan = [w \in Writers |-> FALSE]
    /\ wpc = [w \in Writers |-> "select"]
    /\ wop = [w \in Writers |-> NoOp]
    /\ resultChan = [c \in Chans |-> << >>]
    /\ callNo = [p \in Callers |-> 0]
    /\ cpc = [p \in Callers |-> "idle"]
    /\ entries = [p \in Callers |-> << >>]
    /\ resultChannels = [p \in Callers |-> << >>]
    /\ creq = [p \in Callers |-> NoOp]
    /\ ai = [p \in Callers |-> 1]
    /\ ret = [p \in Callers |-> NoReturn]
    /\ writeCalls = 0
    /\ dpc = "idle"
    /\ di = 1
    /\ disconnectCalls = 0
    /\ closeCalls = << >>
    /\ dret = NoReturn
    /\ panicked = FALSE
    /\ observed = [c \in Chans |-> "unused"]
    /\ execCalls = [c \in Chans |-> << >>]
    /\ posts = [c \in Chans |-> << >>]

(***************************************************************************)
(* writerPool.write and LogStore.Write                                     *)
(***************************************************************************)
\* a write that does not test pool.started
poolStartedAlways == TRUE

\* the test `if !pool.started` of writerPool.write
poolStarted == started

\* a work queue without a capacity
workChanAlwaysHasRoom == TRUE

\* the send `pool.workChan <- insertRequest` can proceed
workChanHasRoom == Len(workChan) < WriteBufferSize

\* a loop that awaits the result channels from the last to the first
awaitOrderReversed(p, k) == Len(resultChannels[p]) - k + 1

\* the index of the k-th result channel the await loop of Write receives from
awaitOrder(p, k) == k

\* a pool that keeps one result channel per batch position, shared by all
\* Write calls
newResultChanPerIndex(p, i) == i

\* resultChan := make(writeResultChan, 1): the channel made for the i-th
\* entry of the caller's current Write call
newResultChan(p, i) == (callNo[p] - 1) * MaxBatch + i

\* position of a caller after the i-th insert of its batch has returned
afterInsert(p, i) == IF i = Len(entries[p]) THEN "await" ELSE "insert"

\* a Write that rejects even an empty batch on a stopped pool
writeOfNoEntriesOnPool(poolIsStarted) ==
    IF poolIsStarted THEN Nil ELSE InsertError(WriteRejected)

\* LogStore.Write of an empty batch: neither loop body runs and the final
\* `return nil` is reached, whatever pool.started is
writeOfNoEntries(poolIsStarted) == Nil

\* LogStore.Write is called with a batch; an empty batch runs neither loop
Write(p, batch) ==
    /\ ~panicked
    /\ cpc[p] \in {"idle", "done"}
    /\ writeCalls < MaxWrites
    /\ writeCalls' = writeCalls + 1
    /\ callNo' = [callNo EXCEPT ![p] = writeCalls + 1]
    /\ entries' = [entries EXCEPT ![p] = batch]
    /\ resultChannels' = [resultChannels EXCEPT ![p] = << >>]
    /\ ai' = [ai EXCEPT ![p] = 1]
    /\ IF batch = << >>
       THEN /\ cpc' = [cpc EXCEPT ![p] = "done"]
            /\ ret' = [ret EXCEPT ![p] = writeOfNoEntries(started)]
       ELSE /\ cpc' = [cpc EXCEPT ![p] = "insert"]
            /\ ret' = [ret EXCEPT ![p] = NoReturn]
    /\ UNCHANGED << otherVars, started, workChan, stopChan, wpc, wop, resultChan,
                    creq, dpc, di, disconnectCalls, closeCalls, dret,
                    panicked, observed, execCalls, posts >>

\* c.insert(&logEntry) -> writerPool.write, up to the send on workChan:
\* the result channel is made, pool.started is read, and a stopped pool
\* answers on the result channel at once
Submit(p) ==
    /\ ~panicked
    /\ cpc[p] = "insert"
    /\ LET i == Len(resultChannels[p]) + 1
           c == newResultChan(p, i)
       IN  /\ observed' = [observed EXCEPT ![c] = IF started THEN "running" ELSE "stopped"]
           /\ IF ~poolStarted
              THEN /\ Len(resultChan[c]) < ResultChanCap
                   /\ resultChan' = [resultChan EXCEPT ![c] = Append(@, WriteRejected)]
                   /\ posts' = [posts EXCEPT ![c] = Append(@, WriteRejected)]
                   /\ resultChannels' = [resultChannels EXCEPT ![p] = Append(@, c)]
                   /\ cpc' = [cpc EXCEPT ![p] = afterInsert(p, i)]
                   /\ UNCHANGED creq
              ELSE /\ creq' = [creq EXCEPT ![p] = insertOperation(insert(entries[p], i), c)]
                   /\ cpc' = [cpc EXCEPT ![p] = "send"]
                   /\ UNCHANGED << resultChan, posts, resultChannels >>
    /\ UNCHANGED << otherVars, started, workChan, stopChan, wpc, wop, entries, ai, ret,
                    callNo, writeCalls, dpc, di, disconnectCalls, closeCalls, dret, panicked,
                    execCalls >>

\* pool.workChan <- insertRequest; return insertRequest.resultChan
Enqueue(p) ==
    /\ ~panicked
    /\ cpc[p] = "send"
    /\ workChanHasRoom
    /\ workChan' = Append(workChan, creq[p])
    /\ resultChannels' = [resultChannels EXCEPT ![p] = Append(@, creq[p].resultChan)]
    /\ cpc' = [cpc EXCEPT ![p] = afterInsert(p, Len(resultChannels[p]) + 1)]
    /\ creq' = [creq EXCEPT ![p] = NoOp]
    /\ UNCHANGED << otherVars, started, stopChan, wpc, wop, resultChan, callNo,
                    entries, ai, ret, writeCalls, dpc, di, disconnectCalls,
                    closeCalls, dret, panicked, observed, execCalls, posts >>

\* one iteration of the await loop of LogStore.Write: err := <-resultChannel
Await(p) ==
    /\ ~panicked
    /\ cpc[p] = "await"
    /\ LET c == resultChannels[p][awaitOrder(p, ai[p])]
       IN  /\ resultChan[c] # << >>
           /\ resultChan' = [resultChan EXCEPT ![c] = Tail(@)]
           /\ IF Head(resultChan[c]) # Nil
              THEN /\ ret' = [ret EXCEPT ![p] = InsertError(Head(resultChan[c]))]
                   /\ cpc' = [cpc EXCEPT ![p] = "done"]
                   /\ UNCHANGED ai
              ELSE IF ai[p] = Len(resultChannels[p])
                   THEN /\ ret' = [ret EXCEPT ![p] = Nil]
                        /\ cpc' = [cpc EXCEPT ![p] = "done"]
                        /\ UNCHANGED ai
                   ELSE /\ ai' = [ai EXCEPT ![p] = @ + 1]
                        /\ UNCHANGED << ret, cpc >>
    /\ UNCHANGED << otherVars, started, workChan, stopChan, wpc, wop, callNo,
                    entries, resultChannels, creq, writeCalls, dpc, di,
                    disconnectCalls, closeCalls, dret, panicked, observed, execCalls,
                    posts >>

(***************************************************************************)
(* CQLDriver.Execute                                                       *)
(***************************************************************************)
\* fmt.Errorf("cannot execute statement: not connected to cassandra")
NotConnected ==
    [kind |-> "cannot execute statement: not connected to cassandra", op |-> 0,
     wrap |-> "none"]

\* a driver that hands the statement to its session without looking at it
sessionMissingNever(s) == FALSE

\* `if d.session == nil`
sessionMissing(s) == s = "nil"

\* what CQLDriver.Execute can return for the operation of result channel c:
\* the not-connected error before anything is sent, else what stmt.Exec()
\* on the session returns, nil or an error
CQLExecute(c) ==
    IF sessionMissing(session) THEN {NotConnected} ELSE {Nil, DriverErr(c)}

(***************************************************************************)
(* writer.start                                                            *)
(***************************************************************************)
\* a writer that drops the error of Execute
resultToPostNil(op, r) == Nil

\* the value a writer sends on the result channel of operation op when the
\* driver's Execute returned r
resultToPost(op, r) == r

\* a receive that leaves the operation in the queue for the next receiver
afterReceiveKept(q) == q

\* the work queue after a receive: the received operation is gone from it
afterReceive(q) == Tail(q)

\* select case op := <-w.workChan
Receive(w) ==
    /\ ~panicked
    /\ wpc[w] = "select"
    /\ workChan # << >>
    /\ wop' = [wop EXCEPT ![w] = Head(workChan)]
    /\ workChan' = afterReceive(workChan)
    /\ wpc' = [wpc EXCEPT ![w] = "execute"]
    /\ UNCHANGED << otherVars, started, stopChan, resultChan, callNo, cpc, entries,
                    resultChannels, creq, ai, ret, writeCalls, dpc, di,
                    disconnectCalls, closeCalls, dret, panicked, observed, execCalls,
                    posts >>

\* a writer that also looks at its stop channel while it holds an operation
atSelectOrHolding(w) == wpc[w] \in {"select", "execute"}

\* the writer is at the select of its loop: the case body of a received
\* operation runs to its end before the select is reached again
atSelect(w) == wpc[w] = "select"

\* a writer whose select has no case for the stop channel
stopChanIgnored(w) == FALSE

\* the receive `<-w.stopChan` can proceed: the channel has been closed
stopChanClosed(w) == stopChan[w]

\* select case <-w.stopChan: return
StopSignal(w) ==
    /\ ~panicked
    /\ atSelect(w)
    /\ stopChanClosed(w)
    /\ wpc' = [wpc EXCEPT ![w] = "exited"]
    /\ UNCHANGED << otherVars, started, workChan, stopChan, wop, resultChan, callNo,
                    cpc, entries, resultChannels, creq, ai, ret, writeCalls,
                    dpc, di, disconnectCalls, closeCalls, dret, panicked, observed,
                    execCalls, posts >>

\* op.resultChan <- w.cassandraDriver.Execute(op.insert.insertStatement,
\*                                            op.insert.placeholders...)
\* Execute returns nil or an error of the driver; the writer sends that value
\* on the operation's result channel and goes back to the select
Execute(w) ==
    /\ ~panicked
    /\ wpc[w] = "execute"
    /\ Len(resultChan[wop[w].resultChan]) < ResultChanCap
    /\ \E r \in CQLExecute(wop[w].resultChan) :
         /\ execCalls' = [execCalls EXCEPT ![wop[w].resultChan] =
                Append(@, [statement |-> wop[w].insert.insertStatement,
                           placeholders |-> wop[w].insert.placeholders,
                           result |-> r])]
         /\ resultChan' = [resultChan EXCEPT ![wop[w].resultChan] =
                Append(@, resultToPost(wop[w], r))]
         /\ posts' = [posts EXCEPT ![wop[w].resultChan] =
                Append(@, resultToPost(wop[w], r))]
    /\ wpc' = [wpc EXCEPT ![w] = "select"]
    /\ wop' = [wop EXCEPT ![w] = NoOp]
    /\ UNCHANGED << otherVars, started, workChan, stopChan, callNo, cpc, entries,
                    resultChannels, creq, ai, ret, writeCalls, dpc, di,
                    disconnectCalls, closeCalls, dret, panicked, observed >>

(***************************************************************************)
(* LogStore.Disconnect -> writerPool.stop -> writer.stop, driver.Close      *)
(***************************************************************************)
\* LogStore.Disconnect is called
Disconnect ==
    /\ ~panicked
    /\ dpc = "idle"
    /\ disconnectCalls < MaxDisconnects
    /\ disconnectCalls' = disconnectCalls + 1
    /\ dpc' = "stop"
    /\ di' = 1
    /\ dret' = NoReturn
    /\ UNCHANGED << otherVars, started, workChan, stopChan, wpc, wop, resultChan,
                    callNo, cpc, entries, resultChannels, creq, ai, ret,
                    writeCalls, closeCalls, panicked, observed, execCalls, posts >>

\* writer.stop of the next writer: close(w.stopChan); closing a closed
\* channel is a runtime panic, which ends the process
StopWriter ==
    /\ ~panicked
    /\ dpc = "stop"
    /\ di <= WriteConcurrency
    /\ IF stopChan[di]
       THEN /\ panicked' = TRUE
            /\ dpc' = "panic"
            /\ UNCHANGED << stopChan, di >>
       ELSE /\ stopChan' = [stopChan EXCEPT ![di] = TRUE]
            /\ di' = di + 1
            /\ UNCHANGED << panicked, dpc >>
    /\ UNCHANGED << otherVars, started, workChan, wpc, wop, resultChan, callNo, cpc,
                    entries, resultChannels, creq, ai, ret, writeCalls,
                    disconnectCalls, closeCalls, dret, observed, execCalls, posts >>

\* pool.started = false, after the loop over the writers
SetStopped ==
    /\ ~panicked
    /\ dpc = "stop"
    /\ di > WriteConcurrency
    /\ started' = FALSE
    /\ dpc' = "close"
    /\ UNCHANGED << otherVars, workChan, stopChan, wpc, wop, resultChan, callNo, cpc,
                    entries, resultChannels, creq, ai, ret, writeCalls, di,
                    disconnectCalls, closeCalls, dret, panicked, observed, execCalls,
                    posts >>

\* what Driver.Close can return: the interface allows any error
CloseError == [kind |-> "close", op |-> 0, wrap |-> "none"]

DriverCloseResults == {Nil, CloseError}

\* a Disconnect that drops the error of driver.Close
disconnectReturnNil(closeErr) == Nil

\* return c.driver.Close(): the result of Close is returned as it is
disconnectReturn(closeErr) == closeErr

\* c.driver.Close() is called and LogStore.Disconnect returns
DriverClose ==
    /\ ~panicked
    /\ dpc = "close"
    /\ \E closeErr \in DriverCloseResults :
         /\ closeCalls' = Append(closeCalls, closeErr)
         /\ dret' = disconnectReturn(closeErr)
    /\ dpc' = "idle"
    /\ UNCHANGED << otherVars, started, workChan, stopChan, wpc, wop, resultChan,
                    callNo, cpc, entries, resultChannels, creq, ai, ret,
                    writeCalls, di, disconnectCalls, panicked, observed,
                    execCalls, posts >>

vars == << poolVars, otherVars >>

(***************************************************************************)
(* LogEntry.Validate                                                       *)
(***************************************************************************)
\* fmt.Errorf(message)
Errorf(message) == [kind |-> message, op |-> 0, wrap |-> "none"]

\* a Validate that looks at the time field first
ValidateTimeFirst(l) ==
    IF IsZero(l.Time) THEN Errorf("log entry missing time field")
    ELSE IF l.Kubernetes.Namespace = "" THEN Errorf("log entry missing namespace field")
    ELSE IF l.Kubernetes.PodName = "" THEN Errorf("log entry missing pod_name field")
    ELSE IF l.Kubernetes.ContainerName = ""
         THEN Errorf("log entry missing container_name field")
    ELSE Nil

\* func (l *LogEntry) Validate() error
Validate(l) ==
    IF l.Kubernetes.Namespace = "" THEN Errorf("log entry missing namespace field")
    ELSE IF l.Kubernetes.PodName = "" THEN Errorf("log entry missing pod_name field")
    ELSE IF l.Kubernetes.ContainerName = ""
         THEN Errorf("log entry missing container_name field")
    ELSE IF IsZero(l.Time) THEN Errorf("log entry missing time field")
    ELSE Nil

\* the entries Validate is called on: each required field present or
\* missing, the other fields set or empty, the time zero or not in either
\* location
ValidateTimes ==
    [abs : {0, 12 * Hour, MaxDays * 24 * Hour - 1}, loc : Locs]

ValidateEntries ==
    { [Kubernetes |-> [Namespace |-> ns, PodName |-> pod, ContainerName |-> cont,
                       PodID |-> "pod-id", DockerID |-> "docker-id",
                       Host |-> host, Labels |-> "labels"],
       Log |-> log, Stream |-> "stdout", Time |-> t] :
         ns \in {"", "ns"}, pod \in {"", "nginx-abcde"}, cont \in {"", "nginx"},
         host \in {"", "host"}, log \in {"", "event"}, t \in ValidateTimes }

\* when no entry is being validated
ValidateIdle ==
    /\ ventry = LogEntry("", [abs |-> 0, loc |-> "UTC"])
    /\ vret = NoReturn
    /\ vpc = "idle"

ValidateCall ==
    /\ vpc = "call"
    /\ vret' = Validate(ventry)
    /\ vpc' = "done"
    /\ UNCHANGED << ventry, poolVars, splitVars, connectVars, queryVars, restVars >>

(***************************************************************************)
(* LogStore.Connect and the schema declarations                            *)
(***************************************************************************)
SimpleStrategy == "SimpleStrategy"
NetworkTopologyStrategy == "NetworkTopologyStrategy"

\* r[key] of a Go map: the zero value for a key that is absent
MapGet(r, key) == IF key \in DOMAIN r THEN r[key] ELSE 0

\* the datacenter names in the order of sort.Strings
SortedKeys == << "cluster", "dc1", "dc2" >>

\* ReplicationFactorMap.String(): 'key': factor pairs in key order
ReplicationFactorsString(r) ==
    LET keys == SelectSeq(SortedKeys, LAMBDA key : key \in DOMAIN r)
    IN  [i \in 1 .. Len(keys) |-> << keys[i], r[keys[i]] >>]

\* the Options a LogStore is made with
OptionsSet ==
    [Keyspace : {"insight_logs", "keyspace"},
     LogTableName : {"logs", "logtable"},
     ReplicationStrategy : {SimpleStrategy, NetworkTopologyStrategy},
     ReplicationFactors : {("cluster" :> 3), ("cluster" :> 1),
                           ("dc1" :> 3 @@ "dc2" :> 4)}]

keyspaceDeclaration(opts) ==
    [ddl |-> "CREATE KEYSPACE IF NOT EXISTS",
     keyspace |-> opts.Keyspace,
     table |-> "",
     replication |->
        IF opts.ReplicationStrategy = NetworkTopologyStrategy
        THEN << "NetworkTopologyStrategy", ReplicationFactorsString(opts.ReplicationFactors) >>
        ELSE << "SimpleStrategy", << << "replication_factor",
                                       MapGet(opts.ReplicationFactors, "cluster") >> >> >>]

tableDeclaration(opts) ==
    [ddl |-> "CREATE TABLE IF NOT EXISTS",
     keyspace |-> opts.Keyspace,
     table |-> opts.LogTableName,
     replication |-> << >>]

\* a driver call without a statement
NoStatement == [ddl |-> "", keyspace |-> "", table |-> "", replication |-> << >>]

\* the errors Driver.Connect and Driver.Execute can return
ConnectError == [kind |-> "connect", op |-> 0, wrap |-> "none"]
ExecuteError(statement) == [kind |-> statement.ddl, op |-> 0, wrap |-> "none"]

\* SchemaError{message: message, cause: err}
SchemaError(message, err) == [err EXCEPT !.wrap = message]

\* a Connect that goes on to the schema whatever driver.Connect returned
connectFailedNever(err) == FALSE

\* `if err != nil` after c.driver.Connect()
connectFailed(err) == err # Nil

\* a table failure reported with the phase of the keyspace
tableErrorAsKeyspace(err) == SchemaError("failed to create keyspace", err)

\* the error createSchemaIfNotExists returns when createTableIfNotExists fails
tableError(err) == SchemaError("failed to create log table", err)

\* when Connect is not being called
ConnectIdle ==
    /\ options = [Keyspace |-> "insight_logs", LogTableName |-> "logs",
                  ReplicationStrategy |-> SimpleStrategy,
                  ReplicationFactors |-> ("cluster" :> 3)]
    /\ driverCalls = << >>
    /\ connret = NoReturn
    /\ connpc = "idle"

\* LogStore.Connect: c.driver.Connect() and the test of its result
DriverConnect ==
    /\ connpc = "call"
    /\ \E err \in {Nil, ConnectError} :
         /\ driverCalls' = Append(driverCalls,
                [method |-> "Connect", statement |-> NoStatement, result |-> err])
         /\ IF connectFailed(err)
            THEN connret' = err /\ connpc' = "done"
            ELSE connret' = connret /\ connpc' = "keyspace"
    /\ UNCHANGED << options, poolVars, splitVars, validateVars, queryVars,
                    restVars >>

\* createSchemaIfNotExists: createKeyspaceIfNotExists and the test of its result
CreateKeyspace ==
    /\ connpc = "keyspace"
    /\ \E err \in {Nil, ExecuteError(keyspaceDeclaration(options))} :
         /\ driverCalls' = Append(driverCalls,
                [method |-> "Execute", statement |-> keyspaceDeclaration(options),
                 result |-> err])
         /\ IF err # Nil
            THEN /\ connret' = SchemaError("failed to create keyspace", err)
                 /\ connpc' = "done"
            ELSE connret' = connret /\ connpc' = "table"
    /\ UNCHANGED << options, poolVars, splitVars, validateVars, queryVars,
                    restVars >>

\* createSchemaIfNotExists: createTableIfNotExists, the test of its result
\* and the return
CreateTable ==
    /\ connpc = "table"
    /\ \E err \in {Nil, ExecuteError(tableDeclaration(options))} :
         /\ driverCalls' = Append(driverCalls,
                [method |-> "Execute", statement |-> tableDeclaration(options),
                 result |-> err])
         /\ connret' = IF err # Nil THEN tableError(err) ELSE Nil
         /\ connpc' = "done"
    /\ UNCHANGED << options, poolVars, splitVars, validateVars, queryVars,
                    restVars >>

(***************************************************************************)
(* LogStore.Query, querySplitter.Split and the log table                   *)
(***************************************************************************)
\* hours of the day at which the sampled queries start and end
QueryHours == {1, 12, 22, 23}

QueryTimes ==
    [abs : { (d * 24 + h) * Hour : d \in 0 .. MaxDays - 1, h \in QueryHours },
     loc : Locs]

\* the queries LogStore.Query is called with: the HTTP handler passes on
\* only queries that Query.Validate accepts
Queries ==
    { q \in [Namespace : {"ns"}, PodName : {"nginx-abcde", "other"},
              ContainerName : {"nginx"},
              StartTime : QueryTimes, EndTime : QueryTimes] :
        /\ ~IsZero(q.StartTime)
        /\ ~IsZero(q.EndTime)
        /\ Before(q.StartTime, q.EndTime) }

\* querySplitter.Split
Split(s) ==
    LET queryDays == divideByDays([start |-> s.StartTime, end |-> s.EndTime])
    IN  [i \in 1 .. Len(queryDays) |->
            [Namespace |-> s.Namespace,
             PodName |-> s.PodName,
             ContainerName |-> s.ContainerName,
             StartTime |-> queryDays[i].start,
             EndTime |-> queryDays[i].end]]

\* the entries that have been written to the log table: three a day, the
\* late one stamped with a zone offset
StoredEntries ==
    { LogEntry(<< "event", d * 24 + h >>,
               [abs |-> (d * 24 + h) * Hour, loc |-> IF h = 22 THEN "Fixed" ELSE "UTC"]) :
        d \in 0 .. MaxDays - 1, h \in {2, 13, 22} }

\* ORDER BY time ASC
RECURSIVE OrderByTime(_)
OrderByTime(S) ==
    IF S = {} THEN << >>
    ELSE LET first == CHOOSE e \in S : \A f \in S : e.Time.abs <= f.Time.abs
         IN  << first >> \o OrderByTime(S \ {first})

\* the rows logQueryStatement selects for its six placeholders: the rows of
\* the partition (namespace, pod_name, container_name, date), the date being
\* the one LogStore.insert bound for the entry, with time in [start, end]
Select(placeholders) ==
    OrderByTime({ e \in StoredEntries :
        /\ insertPlaceholders(e)[1] = placeholders[1]
        /\ insertPlaceholders(e)[2] = placeholders[2]
        /\ insertPlaceholders(e)[3] = placeholders[3]
        /\ insertPlaceholders(e)[4] = placeholders[4]
        /\ placeholders[5].abs <= e.Time.abs
        /\ e.Time.abs <= placeholders[6].abs })

\* the placeholders executeQuery passes to driver.Query
queryPlaceholders(q) ==
    << q.Namespace, q.PodName, q.ContainerName, FormatDate(q.StartTime),
       q.StartTime, q.EndTime >>

\* executeQuery turning the driver's rows into LogRows
LogRows(results) ==
    [i \in 1 .. Len(results) |-> [Time |-> results[i].Time, Log |-> results[i].Log]]

\* the error Driver.Query can return for the i-th call
QueryDriverError(i) == [kind |-> "query", op |-> i, wrap |-> "none"]

\* QueryError{"query execution", err}
QueryError(message, err) == [err EXCEPT !.wrap = message]

\* a nil *QueryResult, and &QueryResult{LogRows: rows}
NilResult == [isNil |-> TRUE, LogRows |-> << >>]
QueryResult(rows) == [isNil |-> FALSE, LogRows |-> rows]

\* a Query that has not returned
NoQueryReturn == [result |-> NilResult, err |-> NoReturn]

\* a Query that puts the rows of a later sub-query first
prependRows(rows, more) == more \o rows

\* logRows = append(logRows, rows...)
appendRows(rows, more) == rows \o more

\* a Query that returns the rows collected before the failure
resultOnErrorPartial(rows) == QueryResult(rows)

\* `return nil, QueryError{...}`: the result returned with an error
resultOnError(rows) == NilResult

\* when Query is not being called
QueryIdle ==
    /\ query = [Namespace |-> "", PodName |-> "", ContainerName |-> "",
                StartTime |-> [abs |-> 0, loc |-> "UTC"],
                EndTime |-> [abs |-> 0, loc |-> "UTC"]]
    /\ subQueries = << >>
    /\ qi = 1
    /\ queryCalls = << >>
    /\ logRows = << >>
    /\ qret = NoQueryReturn
    /\ qpc = "idle"

\* LogStore.Query up to the loop: the query is split into sub-queries
QuerySplit ==
    /\ qpc = "call"
    /\ subQueries' = Split(query)
    /\ qi' = 1
    /\ logRows' = << >>
    /\ qpc' = "loop"
    /\ UNCHANGED << query, queryCalls, qret, poolVars, splitVars, validateVars,
                    connectVars, restVars >>

\* one iteration of the loop: executeQuery of the next sub-query; the driver
\* fails or returns the selected rows
ExecuteQuery ==
    /\ qpc = "loop"
    /\ qi <= Len(subQueries)
    /\ \/ /\ queryCalls' = Append(queryCalls,
                  [placeholders |-> queryPlaceholders(subQueries[qi]),
                   rows |-> << >>, err |-> QueryDriverError(qi)])
          /\ qret' = [result |-> resultOnError(logRows),
                      err |-> QueryError("query execution", QueryDriverError(qi))]
          /\ qpc' = "done"
          /\ UNCHANGED << qi, logRows >>
       \/ /\ queryCalls' = Append(queryCalls,
                  [placeholders |-> queryPlaceholders(subQueries[qi]),
                   rows |-> Select(queryPlaceholders(subQueries[qi])),
                   err |-> Nil])
          /\ logRows' = appendRows(logRows,
                  LogRows(Select(queryPlaceholders(subQueries[qi]))))
          /\ qi' = qi + 1
          /\ UNCHANGED << qret, qpc >>
    /\ UNCHANGED << query, subQueries, poolVars, splitVars, validateVars,
                    connectVars, restVars >>

\* return &logstore.QueryResult{LogRows: logRows}, nil
QueryReturn ==
    /\ qpc = "loop"
    /\ qi > Len(subQueries)
    /\ qret' = [result |-> QueryResult(logRows), err |-> Nil]
    /\ qpc' = "done"
    /\ UNCHANGED << query, subQueries, qi, queryCalls, logRows, poolVars,
                    splitVars, validateVars, connectVars, restVars >>

(***************************************************************************)
(* Query.Validate                                                          *)
(***************************************************************************)
\* the variables of the LogStore: pool, splitter, entry validation, Connect
\* and Query
storeVars == << poolVars, splitVars, validateVars, connectVars, queryVars,
               driverVars >>

\* logstore.QueryError(message): an error that is its message
InvalidQuery(message) == [kind |-> message, op |-> 0, wrap |-> "none"]

\* a test that lets a query with start equal to end pass
startAfterEnd(q) == Before(q.EndTime, q.StartTime)

\* `if !q.StartTime.Before(q.EndTime)`
startNotBeforeEnd(q) == ~Before(q.StartTime, q.EndTime)

\* func (q *Query) Validate() error
QueryValidate(q) ==
    IF q.Namespace = "" THEN InvalidQuery("missing query parameter: namespace")
    ELSE IF q.PodName = "" THEN InvalidQuery("missing query parameter: pod_name")
    ELSE IF q.ContainerName = ""
         THEN InvalidQuery("missing query parameter: container_name")
    ELSE IF IsZero(q.StartTime) THEN InvalidQuery("missing query parameter: start_time")
    ELSE IF IsZero(q.EndTime) THEN InvalidQuery("missing query parameter: end_time")
    ELSE IF startNotBeforeEnd(q)
         THEN InvalidQuery("query time-interval: start_time must be earlier than end_time")
    ELSE Nil

\* the queries Validate is called on: each identifying field set or empty,
\* each time zero, early or late, in either location
ValidateQueries ==
    [Namespace : {"", "ns"}, PodName : {"", "nginx-abcde"},
     ContainerName : {"", "nginx"},
     StartTime : ValidateTimes, EndTime : ValidateTimes]

\* when no query is being validated
QueryValidateIdle ==
    /\ vquery = [Namespace |-> "", PodName |-> "", ContainerName |-> "",
                 StartTime |-> [abs |-> 0, loc |-> "UTC"],
                 EndTime |-> [abs |-> 0, loc |-> "UTC"]]
    /\ vqret = NoReturn
    /\ vqpc = "idle"

QueryValidateCall ==
    /\ vqpc = "call"
    /\ vqret' = QueryValidate(vquery)
    /\ vqpc' = "done"
    /\ UNCHANGED << vquery, storeVars, optionsValidateVars, handlerVars, metricsVars >>

(***************************************************************************)
(* Options.Validate                                                        *)
(***************************************************************************)
\* &OptionError{message}
OptionError(message) == [kind |-> message, op |-> 0, wrap |-> "OptionError"]

\* ReplicationStrategy.Validate
ReplicationStrategyValidate(r) ==
    IF r \in {SimpleStrategy, NetworkTopologyStrategy} THEN Nil
    ELSE Errorf("invalid replication strategy: must be one of [SimpleStrategy NetworkTopologyStrategy]")

\* len(m) of a Go map
MapLen(m) == Cardinality(DOMAIN m)

\* a port test without the lower limit
cqlPortAboveRange(port) == port > 65535

\* `opts.CQLPort <= 0 || opts.CQLPort > 65535`
cqlPortOutOfRange(port) == port <= 0 \/ port > 65535

\* func (opts *Options) Validate() error
OptionsValidate(opts) ==
    IF Len(opts.Hosts) < 1
    THEN OptionError("at least one cassandra host must be given")
    ELSE IF cqlPortOutOfRange(opts.CQLPort)
    THEN OptionError("CQL port must be in range [1,65535]")
    ELSE IF opts.Keyspace = "" THEN OptionError("no keyspace given")
    ELSE IF opts.LogTableName = "" THEN OptionError("no log table name given")
    ELSE IF ReplicationStrategyValidate(opts.ReplicationStrategy) # Nil
    THEN OptionError(ReplicationStrategyValidate(opts.ReplicationStrategy).kind)
    ELSE IF opts.ReplicationStrategy = SimpleStrategy
            /\ MapLen(opts.ReplicationFactors) # 1
    THEN OptionError("for SimpleStrategy, one single replication factor must be given")
    ELSE IF opts.ReplicationStrategy = SimpleStrategy
            /\ "cluster" \notin DOMAIN opts.ReplicationFactors
    THEN OptionError("for SimpleStrategy, a replication factor with key 'cluster' is required")
    ELSE IF opts.ReplicationStrategy = NetworkTopologyStrategy
            /\ MapLen(opts.ReplicationFactors) < 1
    THEN OptionError("for NetworkTopologyStrategy, one replication factor must be given for each datacenter")
    ELSE IF opts.WriteConcurrency <= 0
    THEN OptionError("WriteConcurrency must be a positive value")
    ELSE IF opts.WriteBufferSize <= 0
    THEN OptionError("WriteBufferSize must be a positive value")
    ELSE Nil

\* the replication factor maps NewReplicationFactorMap can parse: any
\* datacenter names with any integers
ReplicationFactorMaps ==
    { [dc \in {} |-> 0], ("cluster" :> 1), ("cluster" :> 0), ("dc1" :> 3),
      ("dc1" :> 3 @@ "dc2" :> 4), ("cluster" :> 3 @@ "dc1" :> 2),
      ("dc1" :> 0 - 1 @@ "dc2" :> 2) }

\* the Options Validate is called on
ValidateOptions ==
    [Hosts : {<< >>, << "localhost" >>},
     CQLPort : {0, 1, 9042, 65535, 65536},
     Keyspace : {"", "ks"},
     LogTableName : {"", "log"},
     ReplicationStrategy : {SimpleStrategy, NetworkTopologyStrategy, "UnknownStrategy"},
     ReplicationFactors : ReplicationFactorMaps,
     WriteConcurrency : {0, 1},
     WriteBufferSize : {0, 1}]

\* when no options are being validated
OptionsValidateIdle ==
    /\ vopts = [Hosts |-> << >>, CQLPort |-> 0, Keyspace |-> "", LogTableName |-> "",
                ReplicationStrategy |-> "", ReplicationFactors |-> [dc \in {} |-> 0],
                WriteConcurrency |-> 0, WriteBufferSize |-> 0]
    /\ voret = NoReturn
    /\ vopc = "idle"

OptionsValidateCall ==
    /\ vopc = "call"
    /\ voret' = OptionsValidate(vopts)
    /\ vopc' = "done"
    /\ UNCHANGED << vopts, storeVars, queryValidateVars, handlerVars, metricsVars >>

(***************************************************************************)
(* The handlers of the HTTPServer                                          *)
(***************************************************************************)
\* err.Error(): the text of an error, its prefix, message and operand
ErrorText(err) == << err.wrap, err.kind, err.op >>

\* the entries a POST /write body can hold
HandlerEntries ==
    { SampleEntry(1), SampleEntry(2),
      [SampleEntry(1) EXCEPT !.Kubernetes.Namespace = ""],
      [SampleEntry(2) EXCEPT !.Time = [abs |-> 0, loc |-> "UTC"]] }

\* the bodies of POST /write: a JSON array of up to MaxBatch entries, or
\* something that does not decode
WriteBodies ==
    { [decodes |-> TRUE, logEntries |-> b] :
        b \in UNION { [1 .. n -> HandlerEntries] : n \in 0 .. MaxBatch } }
    \cup { [decodes |-> FALSE, logEntries |-> << >>] }

\* a query parameter of the URL holds a list of values; a time given as a
\* parameter parses or does not, a numeric offset giving a fabricated zone
NameValues(v) == { << >>, << "" >>, << v >>, << v, v >> }

TimeValue(abs, loc) == [parses |-> TRUE, time |-> [abs |-> abs, loc |-> loc]]
Unparsable == [parses |-> FALSE, time |-> [abs |-> 0, loc |-> "UTC"]]

StartTimeValues ==
    { << >>, << Unparsable >>, << TimeValue(12 * Hour, "UTC"), Unparsable >>,
      << TimeValue(0, "UTC") >>, << TimeValue(12 * Hour, "UTC") >>,
      << TimeValue(12 * Hour, "Fixed") >>, << TimeValue(36 * Hour, "UTC") >> }

EndTimeValues ==
    { << >>, << Unparsable >>, << TimeValue(36 * Hour, "UTC"), Unparsable >>,
      << TimeValue(0, "UTC") >>, << TimeValue(12 * Hour, "UTC") >>,
      << TimeValue(36 * Hour, "Fixed") >> }

QueryParams ==
    [namespace : NameValues("ns"), pod_name : NameValues("nginx-abcde"),
     container_name : NameValues("nginx"),
     start_time : StartTimeValues, end_time : EndTimeValues]

NoParams ==
    [namespace |-> << >>, pod_name |-> << >>, container_name |-> << >>,
     start_time |-> << >>, end_time |-> << >>]

NoBody == [decodes |-> FALSE, logEntries |-> << >>]

\* the instants time.Now() can give while a request is handled
Nows == { [abs |-> 24 * Hour, loc |-> "UTC"],
          [abs |-> MaxDays * 24 * Hour - 1, loc |-> "UTC"] }

\* the requests the router passes to the three handlers
Requests ==
    { [method |-> "GET", path |-> "/write", body |-> NoBody, params |-> NoParams,
       now |-> n] : n \in {[abs |-> 24 * Hour, loc |-> "UTC"]} }
    \cup { [method |-> "POST", path |-> "/write", body |-> b, params |-> NoParams,
            now |-> n] : b \in WriteBodies, n \in {[abs |-> 24 * Hour, loc |-> "UTC"]} }
    \cup { [method |-> "GET", path |-> "/query", body |-> NoBody, params |-> ps,
            now |-> n] : ps \in QueryParams, n \in Nows }

\* the response before the handler has written anything
NoResponse ==
    [status |-> 0, message |-> "", detail |-> << >>, healthy |-> FALSE,
     result |-> NilResult, body |-> "none"]

\* errorResponse(w, statusCode, APIError{Message: message, Detail: detail})
errorResponse(code, message, detail) ==
    [status |-> code, message |-> message, detail |-> detail,
     healthy |-> FALSE, result |-> NilResult, body |-> "APIError"]

\* the outcomes of LogStore.Ready, which returns what CQLDriver.Reachable
\* returns: (true, nil), or false with the error of CreateSession
ReachableError == [kind |-> "failed to connect to cluster", op |-> 0, wrap |-> "none"]

ReadyOutcomes ==
    { [healthy |-> TRUE, err |-> Nil], [healthy |-> FALSE, err |-> ReachableError] }

\* the outcomes of LogStore.Write: nil or an InsertError
WriteOutcomes == { Nil, InsertError(WriteRejected), InsertError(DriverErr(1)) }

\* the outcomes of LogStore.Query: a result, or nil with a QueryError
QueryOutcomes ==
    { [result |-> QueryResult(<< >>), err |-> Nil],
      [result |-> QueryResult(LogRows(<< SampleEntry(1) >>)), err |-> Nil],
      [result |-> NilResult,
       err |-> QueryError("query execution", QueryDriverError(1))] }

\* a health probe that always answers 200
healthResponseCodeOK(err) == 200

\* writeGetHandler: responseCode is StatusOK unless Ready gave an error
healthResponseCode(err) == IF err # Nil THEN 503 ELSE 200

\* writeGetHandler: the APIStatus written for an outcome of Ready
healthResponse(outcome) ==
    [status |-> healthResponseCode(outcome.err), message |-> "",
     detail |-> IF outcome.err # Nil THEN ErrorText(outcome.err) ELSE << >>,
     healthy |-> outcome.healthy, result |-> NilResult, body |-> "APIStatus"]

\* a validation loop that goes on after a failure and reports the last one
RECURSIVE validateAllReportLast(_)
validateAllReportLast(logEntries) ==
    IF logEntries = << >> THEN Nil
    ELSE IF Validate(logEntries[Len(logEntries)]) # Nil
         THEN Validate(logEntries[Len(logEntries)])
         ELSE validateAllReportLast(SubSeq(logEntries, 1, Len(logEntries) - 1))

\* writePostHandler: the loop that validates the entries and returns at the
\* first that fails
RECURSIVE validateEntries(_)
validateEntries(logEntries) ==
    IF logEntries = << >> THEN Nil
    ELSE IF Validate(Head(logEntries)) # Nil THEN Validate(Head(logEntries))
         ELSE validateEntries(Tail(logEntries))

\* a handler that goes on whatever Ready returned
notReadyNever(err) == FALSE

\* `_, err := s.logStore.Ready(); if err != nil`
notReady(err) == err # Nil

\* fmt.Errorf("missing query parameter: %s", paramName)
MissingQueryParameter(paramName) ==
    CASE paramName = "namespace" -> Errorf("missing query parameter: namespace")
      [] paramName = "pod_name" -> Errorf("missing query parameter: pod_name")
      [] paramName = "container_name" -> Errorf("missing query parameter: container_name")
      [] paramName = "start_time" -> Errorf("missing query parameter: start_time")
      [] paramName = "end_time" -> Errorf("missing query parameter: end_time")

\* a getQueryParam that takes an absent parameter for an empty one
getQueryParamLenient(paramName, r) ==
    IF Len(r.params[paramName]) > 1
    THEN [kind |-> "query parameter has wrong number of values",
          op |-> Len(r.params[paramName]), wrap |-> paramName]
    ELSE Nil

\* getQueryParam: the error it returns
getQueryParam(paramName, r) ==
    IF Len(r.params[paramName]) = 0 THEN MissingQueryParameter(paramName)
    ELSE IF Len(r.params[paramName]) # 1
    THEN [kind |-> "query parameter has wrong number of values",
          op |-> Len(r.params[paramName]), wrap |-> paramName]
    ELSE Nil

\* getQueryParam: the value it returns, the empty string with an error (as a
\* time the empty string does not parse)
paramValue(paramName, r) ==
    IF Len(r.params[paramName]) = 1 THEN r.params[paramName][1]
    ELSE IF paramName \in {"start_time", "end_time"} THEN Unparsable
    ELSE ""

\* time.Parse(time.RFC3339Nano, value): the error, and the time
parseError(value) == ~value.parses
parsedTime(value) == value.time

\* queryFromRequest: the error it returns
queryFromRequestErr(r) ==
    IF getQueryParam("namespace", r) # Nil THEN getQueryParam("namespace", r)
    ELSE IF getQueryParam("pod_name", r) # Nil THEN getQueryParam("pod_name", r)
    ELSE IF getQueryParam("container_name", r) # Nil
         THEN getQueryParam("container_name", r)
    ELSE IF getQueryParam("start_time", r) # Nil THEN getQueryParam("start_time", r)
    ELSE IF parseError(paramValue("start_time", r))
         THEN Errorf("failed to parse start_time")
    ELSE IF getQueryParam("end_time", r) = Nil
            /\ parseError(paramValue("end_time", r))
         THEN Errorf("failed to parse end_time")
    ELSE Nil

\* queryFromRequest: the Query it returns when it returns no error; end_time
\* is time.Now().UTC() unless the parameter is given once
queryFromRequest(r) ==
    [Namespace |-> paramValue("namespace", r),
     PodName |-> paramValue("pod_name", r),
     ContainerName |-> paramValue("container_name", r),
     StartTime |-> parsedTime(paramValue("start_time", r)),
     EndTime |-> IF getQueryParam("end_time", r) = Nil
                 THEN parsedTime(paramValue("end_time", r))
                 ELSE r.now]

\* when no request is being handled
HandlerIdle ==
    /\ hreq = [method |-> "", path |-> "", body |-> NoBody, params |-> NoParams,
               now |-> [abs |-> 0, loc |-> "UTC"]]
    /\ hpc = "idle"
    /\ storeCalls = << >>
    /\ resp = NoResponse

\* writeGetHandler
WriteGet ==
    /\ hpc = "call"
    /\ hreq.method = "GET" /\ hreq.path = "/write"
    /\ \E outcome \in ReadyOutcomes :
         /\ storeCalls' = Append(storeCalls,
                [method |-> "Ready", entries |-> << >>, result |-> outcome])
         /\ resp' = healthResponse(outcome)
    /\ hpc' = "done"
    /\ UNCHANGED << hreq, storeVars, queryValidateVars, optionsValidateVars,
                    metricsVars >>

\* writePostHandler up to the call of Ready: the body is decoded and the
\* entries are validated
WritePostValidate ==
    /\ hpc = "call"
    /\ hreq.method = "POST" /\ hreq.path = "/write"
    /\ IF ~hreq.body.decodes
       THEN /\ resp' = errorResponse(400, "failed to parse request",
                                     << "none", "json", 0 >>)
            /\ hpc' = "done"
       ELSE IF validateEntries(hreq.body.logEntries) # Nil
       THEN /\ resp' = errorResponse(400, "invalid log entry",
                           ErrorText(validateEntries(hreq.body.logEntries)))
            /\ hpc' = "done"
       ELSE /\ resp' = resp
            /\ hpc' = "ready"
    /\ UNCHANGED << hreq, storeCalls, storeVars, queryValidateVars,
                    optionsValidateVars, metricsVars >>

\* queryGetHandler up to the call of Ready: the query is built from the
\* request and validated
QueryGetValidate ==
    /\ hpc = "call"
    /\ hreq.method = "GET" /\ hreq.path = "/query"
    /\ IF queryFromRequestErr(hreq) # Nil
       THEN /\ resp' = errorResponse(400, "invalid query",
                                     ErrorText(queryFromRequestErr(hreq)))
            /\ hpc' = "done"
       ELSE IF QueryValidate(queryFromRequest(hreq)) # Nil
       THEN /\ resp' = errorResponse(400, "invalid query",
                           ErrorText(QueryValidate(queryFromRequest(hreq))))
            /\ hpc' = "done"
       ELSE /\ resp' = resp
            /\ hpc' = "ready"
    /\ UNCHANGED << hreq, storeCalls, storeVars, queryValidateVars,
                    optionsValidateVars, metricsVars >>

\* writePostHandler and queryGetHandler: s.logStore.Ready() and the test of
\* its error
HandlerReady ==
    /\ hpc = "ready"
    /\ \E outcome \in ReadyOutcomes :
         /\ storeCalls' = Append(storeCalls,
                [method |-> "Ready", entries |-> << >>, result |-> outcome])
         /\ IF notReady(outcome.err)
            THEN /\ resp' = errorResponse(503, "data store is not ready",
                                          ErrorText(outcome.err))
                 /\ hpc' = "done"
            ELSE /\ resp' = resp
                 /\ hpc' = "store"
    /\ UNCHANGED << hreq, storeVars, queryValidateVars, optionsValidateVars,
                    metricsVars >>

\* writePostHandler: s.logStore.Write(logEntries) and the response
WritePostStore ==
    /\ hpc = "store"
    /\ hreq.method = "POST"
    /\ \E err \in WriteOutcomes :
         /\ storeCalls' = Append(storeCalls,
                [method |-> "Write", entries |-> hreq.body.logEntries,
                 result |-> [healthy |-> FALSE, err |-> err]])
         /\ resp' = IF err # Nil
                    THEN errorResponse(500, "failed to store entries", ErrorText(err))
                    ELSE [NoResponse EXCEPT !.status = 200, !.body = "empty"]
    /\ hpc' = "done"
    /\ UNCHANGED << hreq, storeVars, queryValidateVars, optionsValidateVars,
                    metricsVars >>

\* queryGetHandler: s.logStore.Query(query) and the response
QueryGetStore ==
    /\ hpc = "store"
    /\ hreq.method = "GET"
    /\ \E outcome \in QueryOutcomes :
         /\ storeCalls' = Append(storeCalls,
                [method |-> "Query", entries |-> << queryFromRequest(hreq) >>,
                 result |-> [healthy |-> FALSE, err |-> outcome.err]])
         /\ resp' = IF outcome.err # Nil
                    THEN errorResponse(500, "query execution error",
                                       ErrorText(outcome.err))
                    ELSE [NoResponse EXCEPT !.status = 200, !.result = outcome.result,
                                            !.body = "QueryResult"]
    /\ hpc' = "done"
    /\ UNCHANGED << hreq, storeVars, queryValidateVars, optionsValidateVars,
                    metricsVars >>

\* in the specifications of the LogStore nothing of the rest is going on
(***************************************************************************)
(* The metrics middleware of the HTTPServer                                *)
(***************************************************************************)
NumRequests == 3

MRequests == 1 .. NumRequests

\* the calls a handler makes on the response writer it is given
WriteHeaderCall(code) == [call |-> "WriteHeader", statusCode |-> code]
WriteCall == [call |-> "Write", statusCode |-> 0]

\* routes of NewHTTP with the calls their handlers make on the writer, one
\* of each shape: a status alone (POST /write on success), a status and a
\* body (errorResponse), a body alone (the profiling handlers); GET /metrics
\* is MetricsGet below
Routed ==
    { [method |-> "POST", path |-> "/write", calls |-> << WriteHeaderCall(200) >>],
      [method |-> "POST", path |-> "/write",
       calls |-> << WriteHeaderCall(400), WriteCall >>],
      [method |-> "GET", path |-> "/debug/pprof/heap", calls |-> << WriteCall >>] }

MetricsRoute ==
    [method |-> "GET", path |-> "/metrics",
     calls |-> << WriteHeaderCall(200), WriteCall >>]

NoRequest == [method |-> "", path |-> "", calls |-> << >>]

\* elapsed := time.Since(start).Seconds(), in ticks
Elapsed == {1, 2}

\* make(map[MetricDimensions]..., 0)
EmptyMetric == [dim \in {} |-> 0]

NoSnapshot == [taken |-> FALSE, total |-> EmptyMetric, sum |-> EmptyMetric,
               avg |-> EmptyMetric]

\* newWrappedResponseWriter: &wrappedResponseWriter{w, -1}
newWrappedResponseWriter == -1

\* wrappedResponseWriter: WriteHeader is overridden and stores the status
\* code, Write is the embedded writer's and stores nothing
RECURSIVE statusCodeAfter(_, _)
statusCodeAfter(code, calls) ==
    IF calls = << >> THEN code
    ELSE statusCodeAfter(IF Head(calls).call = "WriteHeader"
                         THEN Head(calls).statusCode ELSE code,
                         Tail(calls))

\* MetricDimensions{Method: r.Method, Path: url.Path, StatusCode: ww.statusCode}
metricDim(i) == << mreq[i].method, mreq[i].path, statusCode[i] >>

\* a / b of float64 values, as a fraction in lowest terms
RECURSIVE GCD(_, _)
GCD(a, b) == IF b = 0 THEN a ELSE GCD(b, a % b)

Quotient(a, b) == << a \div GCD(a, b), b \div GCD(a, b) >>

\* a mutex that is never held
lockedByNobody(i) == 0

\* mw.updateMutex.Lock(): the mutex is held by the request
lockedBy(i) == i

\* a snapshot that already counts the request that asks for it
MetricsWithSelf(i) ==
    [taken |-> TRUE,
     total |-> (<< "GET", "/metrics", 200 >> :>
                    MapGet(TotalRequests, << "GET", "/metrics", 200 >>) + 1)
               @@ TotalRequests,
     sum |-> SumResponseTime, avg |-> AvgResponseTime]

\* Metrics(): the three maps as they are while the mutex is held
Metrics(i) ==
    [taken |-> TRUE, total |-> TotalRequests, sum |-> SumResponseTime,
     avg |-> AvgResponseTime]

\* NewMetricsMiddleware, and no request in the server
MetricsIdle ==
    /\ mreq = [i \in MRequests |-> NoRequest]
    /\ mpc = [i \in MRequests |-> "idle"]
    /\ statusCode = [i \in MRequests |-> 0]
    /\ elapsed = [i \in MRequests |-> 0]
    /\ snapshot = [i \in MRequests |-> NoSnapshot]
    /\ TotalRequests = EmptyMetric
    /\ SumResponseTime = EmptyMetric
    /\ AvgResponseTime = EmptyMetric
    /\ updateMutex = 0

\* Intercept: a request arrives at a route and gets its wrapped writer
Intercept(i) ==
    /\ mpc[i] = "idle"
    /\ \E r \in Routed \cup {MetricsRoute} : mreq' = [mreq EXCEPT ![i] = r]
    /\ statusCode' = [statusCode EXCEPT ![i] = newWrappedResponseWriter]
    /\ mpc' = [mpc EXCEPT ![i] = "serve"]
    /\ UNCHANGED << elapsed, snapshot, TotalRequests, SumResponseTime,
                    AvgResponseTime, updateMutex >>
    /\ UNCHANGED << storeVars, queryValidateVars, optionsValidateVars, handlerVars >>

\* nextHandler.ServeHTTP(ww, r) for the handlers other than metricsGetHandler
ServeHTTP(i) ==
    /\ mpc[i] = "serve"
    /\ mreq[i].path # "/metrics"
    /\ statusCode' = [statusCode EXCEPT
                         ![i] = statusCodeAfter(statusCode[i], mreq[i].calls)]
    /\ mpc' = [mpc EXCEPT ![i] = "served"]
    /\ UNCHANGED << mreq, elapsed, snapshot, TotalRequests, SumResponseTime,
                    AvgResponseTime, updateMutex >>
    /\ UNCHANGED << storeVars, queryValidateVars, optionsValidateVars, handlerVars >>

\* nextHandler.ServeHTTP(ww, r) for metricsGetHandler: WriteHeader(200), then
\* Metrics() takes the mutex, copies the maps and releases it
MetricsGet(i) ==
    /\ mpc[i] = "serve"
    /\ mreq[i].path = "/metrics"
    /\ updateMutex = 0
    /\ statusCode' = [statusCode EXCEPT
                         ![i] = statusCodeAfter(statusCode[i], mreq[i].calls)]
    /\ snapshot' = [snapshot EXCEPT ![i] = Metrics(i)]
    /\ mpc' = [mpc EXCEPT ![i] = "served"]
    /\ UNCHANGED << mreq, elapsed, TotalRequests, SumResponseTime,
                    AvgResponseTime, updateMutex >>
    /\ UNCHANGED << storeVars, queryValidateVars, optionsValidateVars, handlerVars >>

\* Intercept after the handler: elapsed is taken and the mutex is locked
Lock(i) ==
    /\ mpc[i] = "served"
    /\ updateMutex = 0
    /\ \E e \in Elapsed : elapsed' = [elapsed EXCEPT ![i] = e]
    /\ updateMutex' = lockedBy(i)
    /\ mpc' = [mpc EXCEPT ![i] = "locked"]
    /\ UNCHANGED << mreq, statusCode, snapshot, TotalRequests, SumResponseTime,
                    AvgResponseTime >>
    /\ UNCHANGED << storeVars, queryValidateVars, optionsValidateVars, handlerVars >>

\* mw.TotalRequests[metricDim]++
UpdateTotal(i) ==
    /\ mpc[i] = "locked"
    /\ TotalRequests' = (metricDim(i) :> MapGet(TotalRequests, metricDim(i)) + 1)
                        @@ TotalRequests
    /\ mpc' = [mpc EXCEPT ![i] = "total"]
    /\ UNCHANGED << mreq, statusCode, elapsed, snapshot, SumResponseTime,
                    AvgResponseTime, updateMutex >>
    /\ UNCHANGED << storeVars, queryValidateVars, optionsValidateVars, handlerVars >>

\* mw.SumResponseTime[metricDim] += elapsed
UpdateSum(i) ==
    /\ mpc[i] = "total"
    /\ SumResponseTime' =
           (metricDim(i) :> MapGet(SumResponseTime, metricDim(i)) + elapsed[i])
           @@ SumResponseTime
    /\ mpc' = [mpc EXCEPT ![i] = "sum"]
    /\ UNCHANGED << mreq, statusCode, elapsed, snapshot, TotalRequests,
                    AvgResponseTime, updateMutex >>
    /\ UNCHANGED << storeVars, queryValidateVars, optionsValidateVars, handlerVars >>

\* mw.AvgResponseTime[metricDim] = sum / float64(total)
UpdateAvg(i) ==
    /\ mpc[i] = "sum"
    /\ AvgResponseTime' =
           (metricDim(i) :> Quotient(MapGet(SumResponseTime, metricDim(i)),
                                     MapGet(TotalRequests, metricDim(i))))
           @@ AvgResponseTime
    /\ mpc' = [mpc EXCEPT ![i] = "avg"]
    /\ UNCHANGED << mreq, statusCode, elapsed, snapshot, TotalRequests,
                    SumResponseTime, updateMutex >>
    /\ UNCHANGED << storeVars, queryValidateVars, optionsValidateVars, handlerVars >>

\* the deferred mw.updateMutex.Unlock() as Intercept's function returns
Unlock(i) ==
    /\ mpc[i] = "avg"
    /\ updateMutex' = 0
    /\ mpc' = [mpc EXCEPT ![i] = "done"]
    /\ UNCHANGED << mreq, statusCode, elapsed, snapshot, TotalRequests,
                    SumResponseTime, AvgResponseTime >>
    /\ UNCHANGED << storeVars, queryValidateVars, optionsValidateVars, handlerVars >>

(***************************************************************************)
(* CQLDriver: Connect, Query, Reachable, and LogStore.Ready                *)
(***************************************************************************)
\* fmt.Errorf("cannot execute query: not connected to cassandra")
QueryNotConnected ==
    [kind |-> "cannot execute query: not connected to cassandra", op |-> 0,
     wrap |-> "none"]

\* fmt.Errorf("failed to get result rows: %s", err) and
\* fmt.Errorf("query execution failed: %s", err)
QueryFailures ==
    { [kind |-> "failed to get result rows", op |-> 0, wrap |-> "none"],
      [kind |-> "query execution failed", op |-> 0, wrap |-> "none"] }

\* what CQLDriver.Query can return: rows with a nil error, or nil rows with
\* an error
CQLQueryResults ==
    IF sessionMissing(session)
    THEN { [rows |-> "nil", err |-> QueryNotConnected] }
    ELSE { [rows |-> "rows", err |-> Nil] }
         \cup { [rows |-> "nil", err |-> e] : e \in QueryFailures }

NoQueryResult == [rows |-> "nil", err |-> NoReturn]

NoReady == [healthy |-> FALSE, err |-> NoReturn]

NoProbe == [result |-> NoReady, session |-> "none"]

\* a probe whose session is still open when Reachable returns
probeLeftOpen(created) == IF created THEN "open" ELSE "none"

\* the session Reachable made, when Reachable returns: `defer session.Close()`
\* has run, and no session was made when CreateSession failed
probeReleased(created) == IF created THEN "closed" ELSE "none"

\* CQLDriver.Reachable: the result for an outcome of d.cluster.CreateSession()
Reachable(created) ==
    IF created THEN [healthy |-> TRUE, err |-> Nil]
    ELSE [healthy |-> FALSE, err |-> ReachableError]

\* a store connected by an earlier Connect, on which no probe and no query
\* has been made
DriverIdle ==
    /\ session = "set"
    /\ probe = NoProbe
    /\ rret = NoReady
    /\ dqret = NoQueryResult

\* CQLDriver.Connect: d.session, err = d.cluster.CreateSession()
CQLConnect ==
    /\ \E created \in BOOLEAN : session' = IF created THEN "set" ELSE "nil"
    /\ UNCHANGED << probe, rret, dqret >>
    /\ UNCHANGED << poolVars, splitVars, validateVars, connectVars, queryVars,
                    queryValidateVars, optionsValidateVars, handlerVars,
                    metricsVars >>

\* CQLDriver.Query
CQLQuery ==
    /\ \E r \in CQLQueryResults : dqret' = r
    /\ UNCHANGED << session, probe, rret >>
    /\ UNCHANGED << poolVars, splitVars, validateVars, connectVars, queryVars,
                    queryValidateVars, optionsValidateVars, handlerVars,
                    metricsVars >>

\* LogStore.Ready: return c.driver.Reachable()
Ready ==
    /\ \E created \in BOOLEAN :
         /\ probe' = [result |-> Reachable(created),
                      session |-> probeReleased(created)]
         /\ rret' = Reachable(created)
    /\ UNCHANGED << session, dqret >>
    /\ UNCHANGED << poolVars, splitVars, validateVars, connectVars, queryVars,
                    queryValidateVars, optionsValidateVars, handlerVars,
                    metricsVars >>

\* in the specifications of the LogStore nothing of the rest is going on
RestIdle ==
    /\ QueryValidateIdle /\ OptionsValidateIdle /\ HandlerIdle /\ MetricsIdle
    /\ DriverIdle

(***************************************************************************)
(* divideByDays called on a period                                         *)
(***************************************************************************)
\* in the other specifications no period is being divided
SplitIdle ==
    /\ period = [start |-> [abs |-> 0, loc |-> "UTC"], end |-> [abs |-> 0, loc |-> "UTC"]]
    /\ dayPeriods = << >>
    /\ spc = "idle"

SplitInit ==
    /\ PoolInit
    /\ ValidateIdle
    /\ ConnectIdle
    /\ QueryIdle
    /\ RestIdle
    /\ period \in Periods
    /\ dayPeriods = << >>
    /\ spc = "call"

DivideByDays ==
    /\ spc = "call"
    /\ dayPeriods' = divideByDays(period)
    /\ spc' = "done"
    /\ UNCHANGED << period, poolVars, validateVars, connectVars, queryVars,
                    restVars >>

(***************************************************************************)
(* Validate called on a log entry                                          *)
(***************************************************************************)
ValidateInit ==
    /\ PoolInit
    /\ SplitIdle
    /\ ConnectIdle
    /\ QueryIdle
    /\ RestIdle
    /\ ventry \in ValidateEntries
    /\ vret = NoReturn
    /\ vpc = "call"

ValidateNext == ValidateCall

ValidateSpec == ValidateInit /\ [][ValidateNext]_vars

(***************************************************************************)
(* Connect called on a new LogStore                                        *)
(***************************************************************************)
ConnectInit ==
    /\ PoolInit
    /\ SplitIdle
    /\ ValidateIdle
    /\ QueryIdle
    /\ RestIdle
    /\ options \in OptionsSet
    /\ driverCalls = << >>
    /\ connret = NoReturn
    /\ connpc = "call"

ConnectNext ==
    \/ DriverConnect
    \/ CreateKeyspace
    \/ CreateTable

ConnectSpec == ConnectInit /\ [][ConnectNext]_vars

(***************************************************************************)
(* Query called with a valid query on a filled log table                   *)
(***************************************************************************)
QueryInit ==
    /\ PoolInit
    /\ SplitIdle
    /\ ValidateIdle
    /\ ConnectIdle
    /\ RestIdle
    /\ query \in Queries
    /\ subQueries = << >>
    /\ qi = 1
    /\ queryCalls = << >>
    /\ logRows = << >>
    /\ qret = NoQueryReturn
    /\ qpc = "call"

QueryNext ==
    \/ QuerySplit
    \/ ExecuteQuery
    \/ QueryReturn

QuerySpec == QueryInit /\ [][QueryNext]_vars

SplitNext == DivideByDays

SplitSpec == SplitInit /\ [][SplitNext]_vars

(***************************************************************************)
(* Validate called on a query                                              *)
(***************************************************************************)
\* the LogStore as NewLogStore made it
StoreIdle ==
    PoolInit /\ SplitIdle /\ ValidateIdle /\ ConnectIdle /\ QueryIdle /\ DriverIdle

QueryValidateInit ==
    /\ StoreIdle
    /\ MetricsIdle
    /\ OptionsValidateIdle
    /\ HandlerIdle
    /\ vquery \in ValidateQueries
    /\ vqret = NoReturn
    /\ vqpc = "call"

QueryValidateNext == QueryValidateCall

QueryValidateSpec == QueryValidateInit /\ [][QueryValidateNext]_vars

(***************************************************************************)
(* Validate called on options                                              *)
(***************************************************************************)
OptionsValidateInit ==
    /\ StoreIdle
    /\ MetricsIdle
    /\ QueryValidateIdle
    /\ HandlerIdle
    /\ vopts \in ValidateOptions
    /\ voret = NoReturn
    /\ vopc = "call"

OptionsValidateNext == OptionsValidateCall

OptionsValidateSpec == OptionsValidateInit /\ [][OptionsValidateNext]_vars

(***************************************************************************)
(* A request handled by the HTTPServer                                     *)
(***************************************************************************)
HandlerInit ==
    /\ StoreIdle
    /\ MetricsIdle
    /\ QueryValidateIdle
    /\ OptionsValidateIdle
    /\ hreq \in Requests
    /\ hpc = "call"
    /\ storeCalls = << >>
    /\ resp = NoResponse

HandlerNext ==
    \/ WriteGet
    \/ WritePostValidate
    \/ QueryGetValidate
    \/ HandlerReady
    \/ WritePostStore
    \/ QueryGetStore

HandlerSpec == HandlerInit /\ [][HandlerNext]_vars

(***************************************************************************)
(* Requests passing through the metrics middleware concurrently            *)
(***************************************************************************)
MetricsInit ==
    /\ StoreIdle
    /\ QueryValidateIdle
    /\ OptionsValidateIdle
    /\ HandlerIdle
    /\ MetricsIdle

MetricsNext ==
    \/ \E i \in MRequests : Intercept(i)
    \/ \E i \in MRequests : ServeHTTP(i)
    \/ \E i \in MRequests : MetricsGet(i)
    \/ \E i \in MRequests : Lock(i)
    \/ \E i \in MRequests : UpdateTotal(i)
    \/ \E i \in MRequests : UpdateSum(i)
    \/ \E i \in MRequests : UpdateAvg(i)
    \/ \E i \in MRequests : Unlock(i)

MetricsSpec == MetricsInit /\ [][MetricsNext]_vars

(***************************************************************************)
(* The writer pool with its callers                                        *)
(***************************************************************************)
Init == PoolInit /\ SplitIdle /\ ValidateIdle /\ ConnectIdle /\ QueryIdle /\ RestIdle

Next ==
    \/ \E p \in Callers, batch \in Batches : Write(p, batch)
    \/ \E p \in Callers : Submit(p)
    \/ \E p \in Callers : Enqueue(p)
    \/ \E p \in Callers : Await(p)
    \/ \E w \in Writers : Receive(w)
    \/ \E w \in Writers : Execute(w)
    \/ \E w \in Writers : StopSignal(w)
    \/ Disconnect
    \/ StopWriter
    \/ SetStopped
    \/ DriverClose

Spec == Init /\ [][Next]_vars

\* the pool while Disconnect is never called
RunningNext ==
    \/ \E p \in Callers, batch \in Batches : Write(p, batch)
    \/ \E p \in Callers : Submit(p)
    \/ \E p \in Callers : Enqueue(p)
    \/ \E p \in Callers : Await(p)
    \/ \E w \in Writers : Receive(w)
    \/ \E w \in Writers : Execute(w)

\* every goroutine that can take a step is eventually scheduled
LiveSpec ==
    /\ Init
    /\ [][RunningNext]_vars
    /\ \A p \in Callers : WF_vars(Submit(p) \/ Enqueue(p) \/ Await(p))
    /\ \A w \in Writers : WF_vars(Receive(w) \/ Execute(w))

\* the pool of a store that has not been connected, with the driver calls
\* Connect and Query; every goroutine that can take a step is eventually
\* scheduled
DriverInit ==
    /\ PoolInit /\ SplitIdle /\ ValidateIdle /\ ConnectIdle /\ QueryIdle
    /\ QueryValidateIdle /\ OptionsValidateIdle /\ HandlerIdle /\ MetricsIdle
    /\ session = "nil"
    /\ probe = NoProbe
    /\ rret = NoReady
    /\ dqret = NoQueryResult

DriverNext ==
    \/ \E p \in Callers, batch \in Batches : Write(p, batch)
    \/ \E p \in Callers : Submit(p)
    \/ \E p \in Callers : Enqueue(p)
    \/ \E p \in Callers : Await(p)
    \/ \E w \in Writers : Receive(w)
    \/ \E w \in Writers : Execute(w)
    \/ CQLConnect
    \/ CQLQuery

DriverSpec ==
    /\ DriverInit
    /\ [][DriverNext]_vars
    /\ \A p \in Callers : WF_vars(Submit(p) \/ Enqueue(p) \/ Await(p))
    /\ \A w \in Writers : WF_vars(Receive(w) \/ Execute(w))

\* the pool with Disconnect and the readiness probe, on a store whose Connect
\* has failed or has succeeded
ReadyInit ==
    /\ PoolInit /\ SplitIdle /\ ValidateIdle /\ ConnectIdle /\ QueryIdle
    /\ QueryValidateIdle /\ OptionsValidateIdle /\ HandlerIdle /\ MetricsIdle
    /\ session \in {"nil", "set"}
    /\ probe = NoProbe
    /\ rret = NoReady
    /\ dqret = NoQueryResult

ReadyNext == Next \/ Ready

ReadySpec == ReadyInit /\ [][ReadyNext]_vars

\* the pool with Disconnect, every goroutine that can take a step being
\* eventually scheduled: the callers, the writers and the goroutine that
\* runs Disconnect
StopLiveSpec ==
    /\ Init
    /\ [][Next]_vars
    /\ \A p \in Callers : WF_vars(Submit(p) \/ Enqueue(p) \/ Await(p))
    /\ \A w \in Writers : WF_vars(Receive(w) \/ Execute(w) \/ StopSignal(w))
    /\ WF_vars(StopWriter \/ SetStopped \/ DriverClose)

(***************************************************************************)
(* Vocabulary of the properties                                            *)
(***************************************************************************)
\* the operation of result channel c sits in the work queue
InWorkChan(c) == \E k \in 1 .. Len(workChan) : workChan[k].resultChan = c
\* a writer has received the operation of result channel c and not yet
\* sent its result
HeldByWriter(c) == \E w \in Writers : wpc[w] = "execute" /\ wop[w].resultChan = c
\* a caller is blocked sending the operation of result channel c
InSend(c) == \E p \in Callers : cpc[p] = "send" /\ creq[p].resultChan = c
\* the operation of result channel c has been received by a writer
Dequeued(c) == observed[c] = "running" /\ ~InSend(c) /\ ~InWorkChan(c)
\* the caller's Write call of a non-empty batch has returned
Returned(p) == cpc[p] = "done" /\ entries[p] # << >>
\* every insert of the caller's batch found the pool started
OnRunningPool(p) ==
    \A i \in 1 .. Len(resultChannels[p]) : observed[resultChannels[p][i]] = "running"
\* the entries of the caller's batch whose Execute returned an error
Failing(p) ==
    { i \in 1 .. Len(resultChannels[p]) :
        /\ execCalls[resultChannels[p][i]] # << >>
        /\ execCalls[resultChannels[p][i]][1].result # Nil }
Min(S) == CHOOSE i \in S : \A j \in S : i <= j
UTCDay(t) == t.abs \div (24 * Hour)

(***************************************************************************)
(* C1. A Write of a non-empty batch on a running pool returns nil exactly  *)
(* when the Execute of every entry returned nil; otherwise it returns the  *)
(* InsertError wrapping the Execute error of the lowest-index failing      *)
(* entry, whatever order the writers completed the inserts in.             *)
(***************************************************************************)
C1_WriteReturnsLowestIndexError ==
    \A p \in Callers :
        (Returned(p) /\ OnRunningPool(p)) =>
            /\ Len(resultChannels[p]) = Len(entries[p])
            /\ (ret[p] = Nil) <=>
                   \A i \in 1 .. Len(entries[p]) :
                       /\ Len(execCalls[resultChannels[p][i]]) = 1
                       /\ execCalls[resultChannels[p][i]][1].result = Nil
            /\ (ret[p] # Nil) =>
                   /\ Failing(p) # {}
                   /\ ret[p] = InsertError(
                          execCalls[resultChannels[p][Min(Failing(p))]][1].result)

\* a batch of two whose inserts both failed has returned the first error
C1_Witness ==
    \E p \in Callers :
        /\ Returned(p) /\ OnRunningPool(p)
        /\ Failing(p) = {1, 2}
        /\ ret[p] = InsertError(DriverErr(resultChannels[p][1]))

(***************************************************************************)
(* C2. When a Write on a running pool returns, nil or error, it has        *)
(* received from the result channel of every entry of the batch: no insert *)
(* of the batch is still queued or executing and no result of the batch is *)
(* left unread.                                                            *)
(***************************************************************************)
C2_WriteDrainsEveryResultChannel ==
    \A p \in Callers :
        (Returned(p) /\ OnRunningPool(p)) =>
            \A i \in 1 .. Len(resultChannels[p]) :
                /\ ~InWorkChan(resultChannels[p][i])
                /\ ~HeldByWriter(resultChannels[p][i])
                /\ resultChan[resultChannels[p][i]] = << >>

(***************************************************************************)
(* C3. A Write of K entries on a running pool whose Execute calls all      *)
(* return nil returns nil, and when it has returned exactly one Execute    *)
(* call has been made for each entry, with the insert statement and the    *)
(* entry's own 11 positional values.                                       *)
(***************************************************************************)
C3_OneExecutePerEntryWithOwnValues ==
    \A p \in Callers :
        (Returned(p) /\ OnRunningPool(p) /\ Failing(p) = {}) =>
            /\ ret[p] = Nil
            /\ Cardinality({ resultChannels[p][i] : i \in 1 .. Len(resultChannels[p]) })
                   = Len(entries[p])
            /\ \A i \in 1 .. Len(entries[p]) :
                   execCalls[resultChannels[p][i]] =
                       << [statement |-> insertStatement,
                           placeholders |->
                               << entries[p][i].Kubernetes.Namespace,
                                  entries[p][i].Kubernetes.PodName,
                                  entries[p][i].Kubernetes.ContainerName,
                                  FormatDate(entries[p][i].Time),
                                  entries[p][i].Time,
                                  entries[p][i].Log,
                                  entries[p][i].Stream,
                                  entries[p][i].Kubernetes.PodID,
                                  entries[p][i].Kubernetes.DockerID,
                                  entries[p][i].Kubernetes.Host,
                                  entries[p][i].Kubernetes.Labels >>,
                           result |-> Nil] >>

\* a batch of MaxBatch different entries has been written without error
C3_Witness ==
    \E p \in Callers :
        /\ Returned(p) /\ OnRunningPool(p) /\ Failing(p) = {}
        /\ Len(entries[p]) = MaxBatch
        /\ entries[p][1] # entries[p][MaxBatch]
        /\ ret[p] = Nil

(***************************************************************************)
(* C4. A submit that finds the pool stopped returns at once a result       *)
(* channel on which exactly one 'write rejected' error was sent; its       *)
(* operation is never put on the work queue and never executed.            *)
(***************************************************************************)
C4_StoppedPoolRejects ==
    \A c \in Chans :
        observed[c] = "stopped" =>
            /\ posts[c] = << WriteRejected >>
            /\ resultChan[c] \in { << WriteRejected >>, << >> }
            /\ execCalls[c] = << >>
            /\ ~InSend(c)
            /\ ~InWorkChan(c)
            /\ ~HeldByWriter(c)

\* a submit was made on a stopped pool and its rejection was read by Write
C4_Witness ==
    \E p \in Callers :
        /\ cpc[p] = "done"
        /\ ret[p] = InsertError(WriteRejected)
        /\ \E c \in Chans : observed[c] = "stopped" /\ resultChan[c] = << >>

(***************************************************************************)
(* C5. While the pool is running every submit eventually returns and       *)
(* every Write eventually returns, for bursts larger than the queue and    *)
(* the writers together and with several Write calls in progress.          *)
(***************************************************************************)
C5_EveryWriteReturns ==
    \A p \in Callers :
        /\ (cpc[p] = "send") ~> (cpc[p] # "send")
        /\ (cpc[p] \in {"insert", "send", "await"}) ~> (cpc[p] = "done")

\* a submit is blocked: the queue is full and every writer is executing,
\* while another Write call is in progress
C5_Witness ==
    /\ \E p \in Callers : cpc[p] = "send"
    /\ Len(workChan) = WriteBufferSize
    /\ \A w \in Writers : wpc[w] = "execute"
    /\ \A p \in Callers : cpc[p] \in {"insert", "send", "await"}

(***************************************************************************)
(* C6. The work queue never holds more than WriteBufferSize operations,    *)
(* and an operation is only added to a queue that holds fewer.             *)
(***************************************************************************)
C6_QueueBounded ==
    /\ [](Len(workChan) <= WriteBufferSize)
    /\ [][Len(workChan') > Len(workChan) => Len(workChan) < WriteBufferSize]_vars

\* a submit waits on a full queue
C6_Witness ==
    /\ Len(workChan) = WriteBufferSize
    /\ \E p \in Callers : cpc[p] = "send"

(***************************************************************************)
(* C7. A result channel is sent on at most once; the operation a writer    *)
(* has received and finished has exactly one value on its result channel,  *)
(* the value the driver Execute of that operation returned.                *)
(***************************************************************************)
C7_ResultPostedOnceFromOwnExecute ==
    \A c \in Chans :
        /\ Len(posts[c]) <= 1
        /\ Len(execCalls[c]) <= 1
        /\ HeldByWriter(c) => posts[c] = << >>
        /\ (Dequeued(c) /\ ~HeldByWriter(c)) =>
               /\ Len(execCalls[c]) = 1
               /\ posts[c] = << execCalls[c][1].result >>
               /\ execCalls[c][1].result \in {Nil, DriverErr(c)}

\* two operations were executed, one failed and one succeeded
C7_Witness ==
    \E c, d \in Chans :
        /\ Dequeued(c) /\ ~HeldByWriter(c) /\ posts[c] = << DriverErr(c) >>
        /\ Dequeued(d) /\ ~HeldByWriter(d) /\ posts[d] = << Nil >>

(***************************************************************************)
(* C8. Stop is idempotent: a second Disconnect completes normally and      *)
(* leaves the pool stopped as after the first.                             *)
(***************************************************************************)
C8_SecondStopCompletes ==
    disconnectCalls = 2 =>
        /\ ~panicked
        /\ dpc = "idle" => (~started /\ \A w \in Writers : stopChan[w])

(***************************************************************************)
(* C9. For a period with start <= end, divideByDays returns periods that   *)
(* cover [start, end] exactly: the first starts at start, the last ends at *)
(* end, each period but the last ends one nanosecond before the next UTC   *)
(* midnight and the next one starts at that midnight.                      *)
(***************************************************************************)
C9_DayPeriodsCoverThePeriod ==
    (spc = "done" /\ period.start.abs <= period.end.abs) =>
        /\ Len(dayPeriods) >= 1
        /\ dayPeriods[1].start.abs = period.start.abs
        /\ dayPeriods[Len(dayPeriods)].end.abs = period.end.abs
        /\ \A i \in 1 .. Len(dayPeriods) : dayPeriods[i].start.abs <= dayPeriods[i].end.abs
        /\ \A i \in 1 .. Len(dayPeriods) - 1 :
               /\ dayPeriods[i].end.abs =
                      UTCDay(dayPeriods[i].start) * 24 * Hour + 24 * Hour - Nanosecond
               /\ dayPeriods[i + 1].start.abs =
                      UTCDay(dayPeriods[i].start) * 24 * Hour + 24 * Hour

(***************************************************************************)
(* C10. For a period with start <= end, divideByDays returns one period    *)
(* per UTC day from the day of start to the day of end, and a period       *)
(* whose start and end are on the same UTC day is returned as it is.       *)
(***************************************************************************)
C10_OnePeriodPerDay ==
    (spc = "done" /\ period.start.abs <= period.end.abs) =>
        /\ Len(dayPeriods) = UTCDay(period.end) - UTCDay(period.start) + 1
        /\ UTCDay(period.start) = UTCDay(period.end) =>
               /\ Len(dayPeriods) = 1
               /\ dayPeriods[1].start.abs = period.start.abs
               /\ dayPeriods[1].end.abs = period.end.abs

(***************************************************************************)
(* C12. The date value bound in an insert is the UTC calendar day of the   *)
(* entry timestamp, for every entry timestamp, including one that carries  *)
(* a zone offset other than UTC.                                           *)
(***************************************************************************)
C12_InsertBindsUTCDay ==
    \A c \in Chans :
        \A k \in 1 .. Len(execCalls[c]) :
            execCalls[c][k].placeholders[4] =
                << "date", UTCDay(execCalls[c][k].placeholders[5]) >>

(***************************************************************************)
(* C18. LogStore.Disconnect calls driver Close only when the pool is       *)
(* marked stopped and every writer has been signalled to stop, calls it    *)
(* exactly once, and returns exactly what driver Close returned.           *)
(***************************************************************************)
C18_DisconnectStopsThenCloses ==
    /\ [][closeCalls' # closeCalls =>
              /\ ~started /\ \A w \in Writers : stopChan[w]
              /\ Len(closeCalls') = Len(closeCalls) + 1
              /\ dpc = "close" /\ dpc' = "idle"]_vars
    /\ [](dpc = "idle" =>
              /\ Len(closeCalls) = disconnectCalls
              /\ disconnectCalls > 0 => dret = closeCalls[Len(closeCalls)])
    /\ [](dpc \in {"stop", "close"} =>
              /\ Len(closeCalls) = disconnectCalls - 1
              /\ dret = NoReturn)

\* a Disconnect has returned the error of driver Close
C18_Witness ==
    /\ dpc = "idle"
    /\ disconnectCalls = 1
    /\ ~started /\ \A w \in Writers : stopChan[w]
    /\ closeCalls = << CloseError >>
    /\ dret = CloseError

(***************************************************************************)
(* C19. LogStore.Write of an empty batch returns nil at once, puts nothing *)
(* on the work queue, makes no result channel and no driver call, whether  *)
(* the pool is running or stopped.                                         *)
(***************************************************************************)
C19_EmptyBatchIsNoOp ==
    [][\A p \in Callers :
           (callNo'[p] # callNo[p] /\ entries'[p] = << >>) =>
               /\ cpc'[p] = "done"
               /\ ret'[p] = Nil
               /\ resultChannels'[p] = << >>
               /\ UNCHANGED << started, workChan, stopChan, wpc, wop, resultChan,
                               creq, observed, execCalls, posts, closeCalls >>]_vars

\* an empty batch has been written to a stopped pool
C19_Witness ==
    \E p \in Callers :
        /\ cpc[p] = "done"
        /\ callNo[p] > 0
        /\ entries[p] = << >>
        /\ ret[p] = Nil
        /\ ~started

(***************************************************************************)
(* C20. LogEntry.Validate returns nil exactly when namespace, pod name and *)
(* container name are non-empty and the time is not zero; otherwise its    *)
(* error names the first missing field in the order namespace, pod_name,   *)
(* container_name, time, whatever else is missing.                         *)
(***************************************************************************)
MissingFields(l) ==
    { i \in 1 .. 4 :
        \/ i = 1 /\ l.Kubernetes.Namespace = ""
        \/ i = 2 /\ l.Kubernetes.PodName = ""
        \/ i = 3 /\ l.Kubernetes.ContainerName = ""
        \/ i = 4 /\ IsZero(l.Time) }

MissingFieldMessage ==
    << "log entry missing namespace field", "log entry missing pod_name field",
       "log entry missing container_name field", "log entry missing time field" >>

C20_ValidateNamesFirstMissingField ==
    vpc = "done" =>
        /\ vret = Nil <=> MissingFields(ventry) = {}
        /\ MissingFields(ventry) # {} =>
               vret.kind = MissingFieldMessage[Min(MissingFields(ventry))]

\* an entry without pod name and without time has been rejected for its
\* pod name
C20_Witness ==
    /\ vpc = "done"
    /\ MissingFields(ventry) = {2, 4}
    /\ vret.kind = "log entry missing pod_name field"

(***************************************************************************)
(* C16. LogStore.Connect executes the keyspace declaration and then the    *)
(* table declaration only after driver Connect has succeeded; when driver  *)
(* Connect fails, Connect returns that very error, unwrapped, and executes *)
(* no statement.                                                           *)
(***************************************************************************)
C16_SchemaOnlyAfterDriverConnect ==
    /\ \A i \in 1 .. Len(driverCalls) :
           /\ driverCalls[i].method = "Connect" <=> i = 1
           /\ i > 1 => driverCalls[1].result = Nil
           /\ i = 2 => driverCalls[i].statement = keyspaceDeclaration(options)
           /\ i = 3 => driverCalls[i].statement = tableDeclaration(options)
    /\ Len(driverCalls) <= 3
    /\ (connpc = "done" /\ driverCalls[1].result # Nil) =>
           /\ connret = driverCalls[1].result
           /\ Len(driverCalls) = 1

\* driver Connect has failed and Connect has returned its error
C16_Witness ==
    /\ connpc = "done"
    /\ driverCalls = << [method |-> "Connect", statement |-> NoStatement,
                         result |-> ConnectError] >>
    /\ connret = ConnectError

(***************************************************************************)
(* C17. In LogStore.Connect a failed keyspace declaration gives a          *)
(* SchemaError 'failed to create keyspace' wrapping the driver error and   *)
(* the table declaration is not executed; a failed table declaration gives *)
(* a SchemaError 'failed to create log table' wrapping the driver error;   *)
(* Connect returns nil only when both statements succeeded in that order.  *)
(***************************************************************************)
C17_SchemaErrorsNameThePhase ==
    connpc = "done" =>
        /\ (Len(driverCalls) >= 2 /\ driverCalls[2].result # Nil) =>
               /\ Len(driverCalls) = 2
               /\ connret = [driverCalls[2].result EXCEPT
                                !.wrap = "failed to create keyspace"]
        /\ (Len(driverCalls) >= 3 /\ driverCalls[3].result # Nil) =>
               /\ driverCalls[2].result = Nil
               /\ connret = [driverCalls[3].result EXCEPT
                                !.wrap = "failed to create log table"]
        /\ connret = Nil =>
               /\ Len(driverCalls) = 3
               /\ \A i \in 1 .. 3 : driverCalls[i].result = Nil
               /\ driverCalls[2].statement.ddl = "CREATE KEYSPACE IF NOT EXISTS"
               /\ driverCalls[3].statement.ddl = "CREATE TABLE IF NOT EXISTS"

\* the table declaration has failed after the keyspace declaration succeeded
C17_Witness ==
    /\ connpc = "done"
    /\ Len(driverCalls) = 3
    /\ driverCalls[2].result = Nil
    /\ driverCalls[3].result # Nil
    /\ connret.wrap = "failed to create log table"

(***************************************************************************)
(* C11. Every sub-query that Split makes of a valid query carries the      *)
(* query's namespace, pod name and container name and starts and ends on   *)
(* one UTC calendar day, and the date bound for it is that day: the one    *)
(* partition its window touches.                                           *)
(***************************************************************************)
C11_SubQueryNamesItsOnePartition ==
    qpc \in {"loop", "done"} =>
        \A i \in 1 .. Len(subQueries) :
            /\ subQueries[i].Namespace = query.Namespace
            /\ subQueries[i].PodName = query.PodName
            /\ subQueries[i].ContainerName = query.ContainerName
            /\ UTCDay(subQueries[i].StartTime) = UTCDay(subQueries[i].EndTime)
            /\ queryPlaceholders(subQueries[i])[4] =
                   << "date", UTCDay(subQueries[i].StartTime) >>

(***************************************************************************)
(* C13. Write and Query agree on the partition: for every entry timestamp  *)
(* T inside the window of a valid query exactly one sub-query has a window *)
(* that contains T, and the date bound for that sub-query equals the date  *)
(* the insert bound for T, whatever zone offsets T, start and end carry.   *)
(***************************************************************************)
C13_WriteAndQueryAgreeOnPartition ==
    qpc \in {"loop", "done"} =>
        \A T \in Times :
            (query.StartTime.abs <= T.abs /\ T.abs <= query.EndTime.abs) =>
                LET containing == { i \in 1 .. Len(subQueries) :
                                      /\ subQueries[i].StartTime.abs <= T.abs
                                      /\ T.abs <= subQueries[i].EndTime.abs }
                IN  /\ Cardinality(containing) = 1
                    /\ \A i \in containing :
                           queryPlaceholders(subQueries[i])[4] =
                               insertPlaceholders(LogEntry("event", T))[4]

(***************************************************************************)
(* C14. LogStore.Query makes exactly one driver Query per sub-query, in    *)
(* the chronological order of the sub-queries, and returns the rows of all *)
(* of them concatenated in that order; as the driver returns the rows of   *)
(* each sub-query in ascending time inside its window, the returned rows   *)
(* never go back in time.                                                  *)
(***************************************************************************)
RECURSIVE RowsOfCalls(_, _)
RowsOfCalls(calls, n) ==
    IF n = 0 THEN << >>
    ELSE RowsOfCalls(calls, n - 1) \o
             [k \in 1 .. Len(calls[n].rows) |->
                 [Time |-> calls[n].rows[k].Time, Log |-> calls[n].rows[k].Log]]

RowsAscendInWindow(call) ==
    /\ \A k \in 1 .. Len(call.rows) :
           /\ call.placeholders[5].abs <= call.rows[k].Time.abs
           /\ call.rows[k].Time.abs <= call.placeholders[6].abs
    /\ \A k \in 1 .. Len(call.rows) - 1 :
           call.rows[k].Time.abs <= call.rows[k + 1].Time.abs

C14_OneQueryPerSubQueryRowsInOrder ==
    /\ Len(queryCalls) <= Len(subQueries)
    /\ \A i \in 1 .. Len(queryCalls) :
           queryCalls[i].placeholders =
               << subQueries[i].Namespace, subQueries[i].PodName,
                  subQueries[i].ContainerName, FormatDate(subQueries[i].StartTime),
                  subQueries[i].StartTime, subQueries[i].EndTime >>
    /\ \A i \in 1 .. Len(subQueries) - 1 :
           subQueries[i].EndTime.abs < subQueries[i + 1].StartTime.abs
    /\ (qpc = "done" /\ qret.err = Nil) =>
           /\ Len(queryCalls) = Len(subQueries)
           /\ qret.result = [isNil |-> FALSE,
                             LogRows |-> RowsOfCalls(queryCalls, Len(queryCalls))]
           /\ (\A i \in 1 .. Len(queryCalls) : RowsAscendInWindow(queryCalls[i])) =>
                  \A k \in 1 .. Len(qret.result.LogRows) - 1 :
                      qret.result.LogRows[k].Time.abs <=
                          qret.result.LogRows[k + 1].Time.abs

\* a query over several days has returned the rows of two sub-queries
C14_Witness ==
    /\ qpc = "done"
    /\ qret.err = Nil
    /\ Len(subQueries) >= 2
    /\ \E i, j \in 1 .. Len(queryCalls) :
           i < j /\ queryCalls[i].rows # << >> /\ queryCalls[j].rows # << >>
    /\ Len(qret.result.LogRows) >= 2

(***************************************************************************)
(* C15. When the driver Query of a sub-query fails, LogStore.Query returns *)
(* a nil result with a QueryError 'query execution' that wraps the         *)
(* driver's error, returns no row of the earlier sub-queries, and makes no *)
(* driver Query for a later sub-query.                                     *)
(***************************************************************************)
C15_QueryAbortsOnDriverError ==
    \A k \in 1 .. Len(queryCalls) :
        queryCalls[k].err # Nil =>
            /\ k = Len(queryCalls)
            /\ qpc = "done"
            /\ qret.result.isNil
            /\ qret.result.LogRows = << >>
            /\ qret.err = [queryCalls[k].err EXCEPT !.wrap = "query execution"]

\* the second of three sub-queries has failed after the first returned rows
C15_Witness ==
    /\ qpc = "done"
    /\ Len(subQueries) = 3
    /\ Len(queryCalls) = 2
    /\ queryCalls[1].rows # << >>
    /\ queryCalls[2].err # Nil
    /\ qret.result.isNil

(***************************************************************************)
(* C21. Query.Validate returns nil exactly when namespace, pod name and    *)
(* container name are non-empty, both times are non-zero and start is      *)
(* strictly before end; start equal to end is rejected with the            *)
(* time-interval message, and an empty field or zero time is rejected with *)
(* 'missing query parameter: <name>' for the first such field in the order *)
(* namespace, pod_name, container_name, start_time, end_time.              *)
(***************************************************************************)
MissingParams(q) ==
    { i \in 1 .. 5 :
        \/ i = 1 /\ q.Namespace = ""
        \/ i = 2 /\ q.PodName = ""
        \/ i = 3 /\ q.ContainerName = ""
        \/ i = 4 /\ q.StartTime.abs = 0
        \/ i = 5 /\ q.EndTime.abs = 0 }

MissingParamMessage ==
    << "missing query parameter: namespace", "missing query parameter: pod_name",
       "missing query parameter: container_name",
       "missing query parameter: start_time", "missing query parameter: end_time" >>

C21_QueryValidateAcceptsOnlyStartBeforeEnd ==
    vqpc = "done" =>
        /\ vqret = Nil <=>
               (MissingParams(vquery) = {} /\ vquery.StartTime.abs < vquery.EndTime.abs)
        /\ MissingParams(vquery) # {} =>
               vqret.kind = MissingParamMessage[Min(MissingParams(vquery))]
        /\ (MissingParams(vquery) = {} /\ vquery.StartTime.abs >= vquery.EndTime.abs) =>
               vqret.kind =
                   "query time-interval: start_time must be earlier than end_time"

\* a query whose start and end are the same instant has been rejected
C21_Witness ==
    /\ vqpc = "done"
    /\ MissingParams(vquery) = {}
    /\ vquery.StartTime.abs = vquery.EndTime.abs
    /\ vquery.StartTime.loc # vquery.EndTime.loc
    /\ vqret.kind = "query time-interval: start_time must be earlier than end_time"

(***************************************************************************)
(* C22. Options.Validate returns nil exactly when every constraint holds:  *)
(* hosts non-empty, port in 1..65535, keyspace and log table non-empty,    *)
(* strategy one of the two, SimpleStrategy with exactly one factor keyed   *)
(* 'cluster', NetworkTopologyStrategy with at least one factor, write      *)
(* concurrency and write buffer size at least 1; otherwise it returns one  *)
(* OptionError, for the first violated constraint in that order.           *)
(***************************************************************************)
ViolatedConstraints(o) ==
    { i \in 1 .. 10 :
        \/ i = 1 /\ o.Hosts = << >>
        \/ i = 2 /\ o.CQLPort \notin 1 .. 65535
        \/ i = 3 /\ o.Keyspace = ""
        \/ i = 4 /\ o.LogTableName = ""
        \/ i = 5 /\ o.ReplicationStrategy \notin {"SimpleStrategy", "NetworkTopologyStrategy"}
        \/ i = 6 /\ o.ReplicationStrategy = "SimpleStrategy"
                 /\ Cardinality(DOMAIN o.ReplicationFactors) # 1
        \/ i = 7 /\ o.ReplicationStrategy = "SimpleStrategy"
                 /\ DOMAIN o.ReplicationFactors # {"cluster"}
        \/ i = 8 /\ o.ReplicationStrategy = "NetworkTopologyStrategy"
                 /\ DOMAIN o.ReplicationFactors = {}
        \/ i = 9 /\ o.WriteConcurrency < 1
        \/ i = 10 /\ o.WriteBufferSize < 1 }

ConstraintMessage ==
    << "at least one cassandra host must be given",
       "CQL port must be in range [1,65535]",
       "no keyspace given",
       "no log table name given",
       "invalid replication strategy: must be one of [SimpleStrategy NetworkTopologyStrategy]",
       "for SimpleStrategy, one single replication factor must be given",
       "for SimpleStrategy, a replication factor with key 'cluster' is required",
       "for NetworkTopologyStrategy, one replication factor must be given for each datacenter",
       "WriteConcurrency must be a positive value",
       "WriteBufferSize must be a positive value" >>

C22_OptionsValidateNamesFirstViolation ==
    vopc = "done" =>
        /\ voret = Nil <=> ViolatedConstraints(vopts) = {}
        /\ ViolatedConstraints(vopts) # {} =>
               /\ voret.wrap = "OptionError"
               /\ voret.kind = ConstraintMessage[Min(ViolatedConstraints(vopts))]

\* options with port 0 and no write concurrency have been rejected for the port
C22_Witness ==
    /\ vopc = "done"
    /\ ViolatedConstraints(vopts) = {2, 9}
    /\ vopts.CQLPort = 0
    /\ voret.kind = "CQL port must be in range [1,65535]"

(***************************************************************************)
(* C23. Every replication factor map that Options.Validate accepts maps    *)
(* each datacenter name to a positive replication factor: no accepted      *)
(* Options carries a zero or negative factor into the keyspace             *)
(* declaration.                                                            *)
(***************************************************************************)
C23_AcceptedFactorsArePositive ==
    (vopc = "done" /\ voret = Nil) =>
        /\ \A dc \in DOMAIN vopts.ReplicationFactors : vopts.ReplicationFactors[dc] > 0
        /\ \A i \in 1 .. Len(keyspaceDeclaration(vopts).replication[2]) :
               keyspaceDeclaration(vopts).replication[2][i][2] > 0

(***************************************************************************)
(* C24. POST /write validates every entry of the decoded batch before      *)
(* anything else: if any entry fails validation the response is 400        *)
(* 'invalid log entry' with the detail of the first invalid entry in batch *)
(* order, and neither LogStore.Ready nor LogStore.Write is called.         *)
(***************************************************************************)
InvalidEntries ==
    { i \in 1 .. Len(hreq.body.logEntries) : Validate(hreq.body.logEntries[i]) # Nil }

PostOfDecodedBatch ==
    hreq.method = "POST" /\ hreq.path = "/write" /\ hreq.body.decodes

C24_InvalidEntryRejectsBatchBeforeStore ==
    (PostOfDecodedBatch /\ InvalidEntries # {}) =>
        /\ storeCalls = << >>
        /\ hpc \in {"call", "done"}
        /\ hpc = "done" =>
               /\ resp.status = 400
               /\ resp.message = "invalid log entry"
               /\ resp.detail =
                      ErrorText(Validate(hreq.body.logEntries[Min(InvalidEntries)]))

\* a batch of two invalid entries that fail differently has been rejected
C24_Witness ==
    /\ PostOfDecodedBatch
    /\ hpc = "done"
    /\ InvalidEntries = {1, 2}
    /\ Validate(hreq.body.logEntries[1]) # Validate(hreq.body.logEntries[2])
    /\ resp.status = 400

(***************************************************************************)
(* C25. For a POST /write whose entries all validate, Ready is called      *)
(* exactly once and before Write; if Ready returns an error the response   *)
(* is 503 'data store is not ready' and Write is never called; otherwise   *)
(* Write is called exactly once with the whole batch and the response is   *)
(* 500 'failed to store entries' on an error and 200 with an empty body    *)
(* on nil.                                                                 *)
(***************************************************************************)
C25_ReadyThenWriteOnce ==
    (PostOfDecodedBatch /\ InvalidEntries = {}) =>
        /\ Len(storeCalls) <= 2
        /\ Len(storeCalls) >= 1 => storeCalls[1].method = "Ready"
        /\ (Len(storeCalls) >= 1 /\ storeCalls[1].result.err # Nil) =>
               /\ Len(storeCalls) = 1
               /\ hpc = "done"
               /\ resp.status = 503
               /\ resp.message = "data store is not ready"
        /\ Len(storeCalls) = 2 =>
               /\ storeCalls[2].method = "Write"
               /\ storeCalls[2].entries = hreq.body.logEntries
               /\ hpc = "done"
               /\ IF storeCalls[2].result.err # Nil
                  THEN resp.status = 500 /\ resp.message = "failed to store entries"
                  ELSE resp.status = 200 /\ resp.body = "empty"
        /\ hpc = "done" =>
               /\ Len(storeCalls) >= 1
               /\ storeCalls[1].result.err = Nil => Len(storeCalls) = 2

\* a batch of two entries has been handed to Write once, which failed
C25_Witness ==
    /\ PostOfDecodedBatch
    /\ hpc = "done"
    /\ Len(hreq.body.logEntries) = 2
    /\ Len(storeCalls) = 2
    /\ storeCalls[2].result.err # Nil
    /\ resp.status = 500

(***************************************************************************)
(* C26. For every outcome of LogStore.Ready, GET /write responds either    *)
(* 200 with healthy true and an empty detail, or 503 with healthy false    *)
(* and the probe's reason as detail: status 200 is returned exactly when   *)
(* the body reports healthy true.                                          *)
(***************************************************************************)
C26_HealthStatusMatchesBody ==
    (hreq.method = "GET" /\ hreq.path = "/write" /\ hpc = "done") =>
        /\ Len(storeCalls) = 1 /\ storeCalls[1].method = "Ready"
        /\ resp.body = "APIStatus"
        /\ \/ resp.status = 200 /\ resp.healthy /\ resp.detail = << >>
           \/ /\ resp.status = 503 /\ ~resp.healthy
              /\ storeCalls[1].result.err # Nil
              /\ resp.detail = << storeCalls[1].result.err.wrap,
                                  storeCalls[1].result.err.kind,
                                  storeCalls[1].result.err.op >>
        /\ resp.status = 200 <=> resp.healthy

\* the probe has failed and the answer is 503 with healthy false
C26_Witness ==
    /\ hreq.method = "GET" /\ hreq.path = "/write" /\ hpc = "done"
    /\ ~storeCalls[1].result.healthy
    /\ resp.status = 503

(***************************************************************************)
(* C27. For GET /query, a missing required parameter (first missing in the *)
(* order namespace, pod_name, container_name, start_time), an unparsable   *)
(* start_time or end_time, or an interval that is not start < end yields   *)
(* 400 'invalid query' with the matching detail, and then neither Ready    *)
(* nor Query is called; Ready is called only after validation passed, and  *)
(* Query only after Ready returned no error (otherwise 503); a Query error *)
(* yields 500 'query execution error'.                                     *)
(***************************************************************************)
RequiredParams == << "namespace", "pod_name", "container_name", "start_time" >>

\* the required parameters that are absent while those before them in the
\* order are given once
FirstMissing ==
    { i \in 1 .. 4 :
        /\ Len(hreq.params[RequiredParams[i]]) = 0
        /\ \A j \in 1 .. i - 1 : Len(hreq.params[RequiredParams[j]]) = 1 }

RequiredGivenOnce == \A i \in 1 .. 4 : Len(hreq.params[RequiredParams[i]]) = 1

StartParses == RequiredGivenOnce /\ hreq.params.start_time[1].parses

EndGiven == Len(hreq.params.end_time) = 1

TimesParse == StartParses /\ (EndGiven => hreq.params.end_time[1].parses)

GivenStart == hreq.params.start_time[1].time
GivenEnd == IF EndGiven THEN hreq.params.end_time[1].time ELSE hreq.now

NothingEmpty ==
    /\ TimesParse
    /\ hreq.params.namespace[1] # "" /\ hreq.params.pod_name[1] # ""
    /\ hreq.params.container_name[1] # ""
    /\ GivenStart.abs # 0 /\ GivenEnd.abs # 0

InvalidQueryResponse(text) ==
    /\ resp.status = 400
    /\ resp.message = "invalid query"
    /\ resp.detail = << "none", text, 0 >>
    /\ storeCalls = << >>

C27_QueryValidatedBeforeStore ==
    (hreq.method = "GET" /\ hreq.path = "/query") =>
        /\ hpc = "done" =>
               /\ \A i \in FirstMissing : InvalidQueryResponse(MissingParamMessage[i])
               /\ (RequiredGivenOnce /\ ~StartParses) =>
                      InvalidQueryResponse("failed to parse start_time")
               /\ (StartParses /\ ~TimesParse) =>
                      InvalidQueryResponse("failed to parse end_time")
               /\ (NothingEmpty /\ GivenStart.abs >= GivenEnd.abs) =>
                      InvalidQueryResponse(
                          "query time-interval: start_time must be earlier than end_time")
               /\ resp.status = 400 => storeCalls = << >>
        /\ storeCalls # << >> =>
               /\ NothingEmpty /\ GivenStart.abs < GivenEnd.abs
               /\ storeCalls[1].method = "Ready"
               /\ Len(storeCalls) <= 2
        /\ (storeCalls # << >> /\ storeCalls[1].result.err # Nil) =>
               /\ Len(storeCalls) = 1
               /\ hpc = "done"
               /\ resp.status = 503
        /\ Len(storeCalls) = 2 =>
               /\ storeCalls[2].method = "Query"
               /\ hpc = "done"
               /\ storeCalls[2].result.err # Nil =>
                      /\ resp.status = 500
                      /\ resp.message = "query execution error"
               /\ storeCalls[2].result.err = Nil => resp.status = 200

\* a query without end_time whose start is after the time of the request
\* has been rejected
C27_Witness ==
    /\ hreq.method = "GET" /\ hreq.path = "/query" /\ hpc = "done"
    /\ NothingEmpty /\ ~EndGiven
    /\ GivenStart.abs >= hreq.now.abs
    /\ resp.status = 400

\* a request without start_time has been rejected
C27_WitnessMissing ==
    /\ hreq.method = "GET" /\ hreq.path = "/query" /\ hpc = "done"
    /\ FirstMissing = {4}
    /\ resp.status = 400

(***************************************************************************)
(* C28. After any sequence of completed requests, also when requests       *)
(* complete concurrently, for each (method, path, status) dimension        *)
(* total_requests equals the number of completed requests with that        *)
(* dimension, sum_response_time the sum of their elapsed times and         *)
(* avg_response_time is sum_response_time / total_requests; no update is   *)
(* lost and no snapshot shows a dimension between two of these updates.    *)
(* The status of a dimension is the one the middleware recorded.           *)
(***************************************************************************)
Measured == { i \in MRequests : mpc[i] \notin {"idle", "serve"} }
Completed(d) == { i \in MRequests : mpc[i] = "done" /\ metricDim(i) = d }
RecordedDims == { metricDim(i) : i \in Measured }

RECURSIVE SumElapsed(_)
SumElapsed(S) ==
    IF S = {} THEN 0
    ELSE LET i == CHOOSE j \in S : TRUE IN elapsed[i] + SumElapsed(S \ {i})

\* the three maps agree with each other on every dimension they hold
Coherent(total, sum, avg) ==
    /\ DOMAIN sum = DOMAIN total
    /\ DOMAIN avg = DOMAIN total
    /\ \A d \in DOMAIN total :
           /\ total[d] >= 1
           /\ sum[d] >= total[d]
           /\ avg[d][1] * total[d] = avg[d][2] * sum[d]

C28_MetricsMatchCompletedRequests ==
    /\ updateMutex = 0 =>
           /\ Coherent(TotalRequests, SumResponseTime, AvgResponseTime)
           /\ \A d \in RecordedDims \cup DOMAIN TotalRequests :
                  /\ MapGet(TotalRequests, d) = Cardinality(Completed(d))
                  /\ MapGet(SumResponseTime, d) = SumElapsed(Completed(d))
    /\ \A i \in MRequests :
           snapshot[i].taken =>
               /\ Coherent(snapshot[i].total, snapshot[i].sum, snapshot[i].avg)
               /\ \A d \in DOMAIN snapshot[i].total :
                      snapshot[i].total[d] <= Cardinality(Completed(d) \ {i})
                          + Cardinality({ j \in MRequests \ {i} :
                                mpc[j] \in {"total", "sum", "avg"} /\ metricDim(j) = d })

\* three requests of one dimension with different elapsed times have all
\* completed
C28_Witness ==
    /\ \A i \in MRequests : mpc[i] = "done"
    /\ \A i \in MRequests : metricDim(i) = << "POST", "/write", 200 >>
    /\ \E i, j \in MRequests : elapsed[i] # elapsed[j]
    /\ TotalRequests[<< "POST", "/write", 200 >>] = NumRequests

(***************************************************************************)
(* C29. The status recorded by the metrics middleware for a request is the *)
(* status of the handler's first status-write, and if the handler makes no *)
(* explicit status-write (it only writes a body, or writes nothing) the    *)
(* recorded status is the default 200.                                     *)
(***************************************************************************)
StatusWrites(calls) == { k \in 1 .. Len(calls) : calls[k].call = "WriteHeader" }

FirstStatusWritten(calls) ==
    IF StatusWrites(calls) = {} THEN 200
    ELSE calls[Min(StatusWrites(calls))].statusCode

C29_RecordedStatusIsFirstWrittenOrDefault ==
    \A i \in Measured :
        /\ statusCode[i] = FirstStatusWritten(mreq[i].calls)
        /\ mpc[i] = "done" =>
               << mreq[i].method, mreq[i].path, FirstStatusWritten(mreq[i].calls) >>
                   \in DOMAIN TotalRequests

(***************************************************************************)
(* C30. A request is counted in the metrics only after its handler has     *)
(* returned, so a GET /metrics response never includes the request that    *)
(* produces it: the first GET /metrics on a fresh server returns 200 with  *)
(* an empty body, and the next GET /metrics reports total_requests = 1 for *)
(* (GET, /metrics, 200).                                                   *)
(***************************************************************************)
Counted(d) ==
    { i \in MRequests : mpc[i] \in {"total", "sum", "avg", "done"} /\ metricDim(i) = d }

MetricsDim == << "GET", "/metrics", 200 >>

\* what a GET /metrics that takes its snapshot in this step must be given
SnapshotExcludesSelf(i) ==
    /\ statusCode'[i] = 200
    /\ DOMAIN snapshot'[i].total = { d \in RecordedDims : Completed(d) \ {i} # {} }
    /\ \A d \in DOMAIN snapshot'[i].total :
           snapshot'[i].total[d] = Cardinality(Completed(d) \ {i})
    /\ (\A j \in MRequests \ {i} : mpc[j] \in {"idle", "serve", "served"}) =>
           /\ snapshot'[i].total = EmptyMetric
           /\ snapshot'[i].sum = EmptyMetric
           /\ snapshot'[i].avg = EmptyMetric
    /\ (\E j \in MRequests \ {i} :
           /\ mpc[j] = "done" /\ mreq[j].path = "/metrics"
           /\ \A k \in MRequests \ {i, j} : mpc[k] = "idle") =>
           snapshot'[i].total = (MetricsDim :> 1)

C30_MetricsExcludeTheirOwnRequest ==
    /\ [](\A d \in RecordedDims \cup DOMAIN TotalRequests :
              MapGet(TotalRequests, d) = Cardinality(Counted(d)))
    /\ [][\A i \in MRequests :
              snapshot'[i] # snapshot[i] => SnapshotExcludesSelf(i)]_vars

\* a first GET /metrics got an empty body and the one after it a total of 1
C30_Witness ==
    \E i, j \in MRequests :
        /\ i # j
        /\ mreq[i].path = "/metrics" /\ mreq[j].path = "/metrics"
        /\ mpc[j] = "done"
        /\ snapshot[j].taken /\ snapshot[j].total = EmptyMetric
        /\ snapshot[i].taken /\ snapshot[i].total = (MetricsDim :> 1)
        /\ \A k \in MRequests \ {i, j} : mpc[k] = "idle"

(***************************************************************************)
(* C31. If a worker has dequeued an operation before stop is signaled, it  *)
(* still executes that operation and posts the result to the operation's   *)
(* channel before it exits: stop never causes an already-dequeued          *)
(* operation to lose its result.                                           *)
(***************************************************************************)
C31_DequeuedOperationKeepsItsResult ==
    /\ [](\A w \in Writers : wpc[w] = "exited" => wop[w] = NoOp)
    /\ [](\A c \in Chans : (Dequeued(c) /\ ~HeldByWriter(c)) => Len(posts[c]) = 1)
    /\ [][\A w \in Writers :
              (wpc[w] = "execute" /\ wpc'[w] # "execute") =>
                  /\ wpc'[w] = "select"
                  /\ Len(execCalls'[wop[w].resultChan]) =
                         Len(execCalls[wop[w].resultChan]) + 1
                  /\ posts'[wop[w].resultChan] =
                         << execCalls'[wop[w].resultChan][1].result >>]_vars

\* a writer whose stop channel is closed, after stop has returned, holds an
\* operation it has dequeued and not yet executed
C31_Witness ==
    \E w \in Writers :
        /\ stopChan[w] /\ ~started /\ dpc \in {"close", "idle"}
        /\ wpc[w] = "execute"
        /\ posts[wop[w].resultChan] = << >>

\* that writer has exited and the operation has its result
C31_WitnessPosted ==
    \E c \in Chans :
        /\ \A w \in Writers : wpc[w] = "exited"
        /\ ~panicked
        /\ Len(posts[c]) = 1 /\ Len(execCalls[c]) = 1
        /\ observed[c] = "running"

(***************************************************************************)
(* C32. An operation that is still in the queue at the moment stop is      *)
(* signaled is not served: no worker dequeues or executes it afterwards    *)
(* and its result channel is never posted.                                 *)
(***************************************************************************)
\* writerPool.stop has closed the stop channel of every writer
StopSignaled == \A w \in Writers : stopChan[w]

C32_QueuedOperationNotServedAfterStop ==
    [][StopSignaled =>
           /\ \A k \in 1 .. Len(workChan) :
                  /\ k <= Len(workChan') /\ workChan'[k] = workChan[k]
                  /\ posts'[workChan[k].resultChan] = << >>
                  /\ execCalls'[workChan[k].resultChan] = << >>
           /\ \A w \in Writers : wpc[w] = "select" => wpc'[w] # "execute"]_vars

(***************************************************************************)
(* C33. After writerPool.stop has been called, every one of the N workers  *)
(* eventually exits its loop (given that driver Execute calls return), and *)
(* a worker that has exited never dequeues or executes another operation.  *)
(* A process that has died of a panic has no worker left in its loop.      *)
(***************************************************************************)
C33_WorkersExitAfterStop ==
    /\ (disconnectCalls >= 1) ~> (panicked \/ \A w \in Writers : wpc[w] = "exited")
    /\ [][/\ \A w \in Writers :
                 wpc[w] = "exited" => (wpc'[w] = "exited" /\ wop'[w] = NoOp)
          /\ Len(workChan') < Len(workChan) =>
                 \E v \in Writers : wpc[v] = "select" /\ wpc'[v] = "execute"
          /\ execCalls' # execCalls =>
                 \E v \in Writers : wpc[v] = "execute" /\ wpc'[v] = "select"]_vars

\* one Disconnect has run to its end and every writer has exited, one of
\* them after serving an operation
C33_Witness ==
    /\ disconnectCalls = 1 /\ dpc = "idle" /\ ~panicked
    /\ \A w \in Writers : wpc[w] = "exited"
    /\ \E c \in Chans : Len(execCalls[c]) = 1

(***************************************************************************)
(* C34. The driver is not used after Close has been called: once           *)
(* LogStore.Disconnect has invoked driver Close, no writer-pool worker is  *)
(* executing or later starts a driver Execute, in any interleaving of      *)
(* Disconnect with Write calls in progress.                                *)
(***************************************************************************)
C34_NoExecuteAfterClose ==
    /\ [](closeCalls # << >> => \A w \in Writers : wpc[w] # "execute")
    /\ [][closeCalls # << >> => execCalls' = execCalls]_vars

(***************************************************************************)
(* C35. The writers run before Connect: on a store whose driver has no     *)
(* session every Write call returns (a call in progress only ends by       *)
(* returning, and from some point on no call is in progress); each Execute *)
(* made by a writer while the session                                      *)
(* is missing returns the not-connected error, which is an error, and a    *)
(* Write whose inserts were all executed without a session returns the     *)
(* InsertError wrapping it; a Query made while the session is missing      *)
(* returns the not-connected query error and no rows.                      *)
(***************************************************************************)
C35_WriteBeforeConnectFailsNotConnected ==
    /\ <>[](\A p \in Callers : cpc[p] \notin {"insert", "send", "await"})
    /\ [][\A p \in Callers :
              (cpc[p] \in {"insert", "send", "await"} /\ cpc'[p] # cpc[p]) =>
                  cpc'[p] \in {"insert", "send", "await", "done"}]_vars
    /\ [][\A c \in Chans :
              (session = "nil" /\ execCalls'[c] # execCalls[c]) =>
                  /\ \E w \in Writers : wpc[w] = "execute" /\ wop[w].resultChan = c
                  /\ Len(execCalls'[c]) = 1
                  /\ execCalls'[c][1].result = NotConnected
                  /\ NotConnected # Nil
                  /\ posts'[c] = << NotConnected >>]_vars
    /\ [](\A p \in Callers :
              (/\ Returned(p)
               /\ \A i \in 1 .. Len(resultChannels[p]) :
                      /\ execCalls[resultChannels[p][i]] # << >>
                      /\ execCalls[resultChannels[p][i]][1].result = NotConnected)
                  => ret[p] = InsertError(NotConnected))
    /\ [][(session = "nil" /\ dqret' # dqret) =>
              dqret' = [rows |-> "nil", err |-> QueryNotConnected]]_vars

\* a Write of a full batch has returned the not-connected error on a store
\* that never had a session, every insert of it executed by a writer
C35_Witness ==
    /\ session = "nil"
    /\ \E p \in Callers :
           /\ Returned(p)
           /\ Len(entries[p]) = MaxBatch
           /\ \A i \in 1 .. MaxBatch :
                  /\ Len(resultChannels[p]) = MaxBatch
                  /\ execCalls[resultChannels[p][i]] # << >>
                  /\ execCalls[resultChannels[p][i]][1].result = NotConnected
           /\ ret[p] = InsertError(NotConnected)

\* a Query on a driver without a session has returned
C35_WitnessQuery ==
    /\ session = "nil"
    /\ dqret = [rows |-> "nil", err |-> QueryNotConnected]

(***************************************************************************)
(* C36. Ready returns the result of the driver's Reachable, (true, nil)    *)
(* when the probe's session could be made and (false, error) when not, and *)
(* changes nothing of the store: the session the probe made is closed when *)
(* Ready returns, and the primary session, the started flag, the work      *)
(* queue and the writers are as before.                                    *)
(***************************************************************************)
C36_ReadyIsReachableAndChangesNothing ==
    /\ [](probe.session # "open")
    /\ [](rret = probe.result)
    /\ [](rret \in {NoReady, [healthy |-> TRUE, err |-> Nil],
                    [healthy |-> FALSE, err |-> ReachableError]})
    /\ []((rret.healthy <=> probe.session = "closed")
          /\ (rret.healthy <=> rret.err = Nil))
    /\ [][(rret' # rret \/ probe' # probe) =>
              /\ session' = session
              /\ started' = started
              /\ workChan' = workChan
              /\ UNCHANGED poolVars]_vars

\* a probe has failed on a stopped pool whose queue still holds an operation
C36_Witness ==
    /\ rret = [healthy |-> FALSE, err |-> ReachableError]
    /\ probe.session = "none"
    /\ ~started
    /\ workChan # << >>

\* a probe has succeeded on a store without a primary session, while the pool
\* is running
C36_WitnessHealthy ==
    /\ rret = [healthy |-> TRUE, err |-> Nil]
    /\ probe.session = "closed"
    /\ session = "nil"
    /\ started
    /\ workChan # << >>

(***************************************************************************)
(* C37. A submit that runs concurrently with stop does not block for ever: *)
(* a write call that waits to put its operation on the work queue gets     *)
(* past that send (unless a panic has ended the process), and an operation *)
(* is only put on the work queue while the pool is started.                *)
(***************************************************************************)
C37_SubmitDuringStopReturns ==
    /\ \A p \in Callers : (cpc[p] = "send") ~> (cpc[p] # "send" \/ panicked)
    /\ [][Len(workChan') > Len(workChan) => started]_vars

\* the operations that were put on the work queue
Enqueued == { c \in Chans : observed[c] = "running" /\ ~InSend(c) }

\* the Execute calls the writers have made
ExecuteCalls ==
    UNION { { << c, i >> : i \in 1 .. Len(execCalls[c]) } : c \in Chans }

(***************************************************************************)
(* C38. With several writers receiving from the one work queue, an         *)
(* operation is received by at most one writer and executed at most once:  *)
(* a receive takes the head off the queue, no two writers hold the same    *)
(* operation, an operation a writer holds or has executed is no longer     *)
(* queued, and the pool has made no more Execute calls than operations     *)
(* were put on the queue.                                                  *)
(***************************************************************************)
C38_OperationExecutedAtMostOnce ==
    /\ [](\A c \in Chans :
              /\ Len(execCalls[c]) <= 1
              /\ Cardinality({ w \in Writers : wop[w] # NoOp /\ wop[w].resultChan = c })
                     <= 1
              /\ Cardinality({ i \in 1 .. Len(workChan) : workChan[i].resultChan = c })
                     <= 1
              /\ (HeldByWriter(c) \/ execCalls[c] # << >>) => ~InWorkChan(c)
              /\ (HeldByWriter(c) \/ execCalls[c] # << >>) => c \in Enqueued)
    /\ [](Cardinality(ExecuteCalls) <= Cardinality(Enqueued))
    /\ [][\A w \in Writers :
              (wop'[w] # wop[w] /\ wop'[w] # NoOp) =>
                  workChan = << wop'[w] >> \o workChan']_vars

\* both writers hold an operation at once, each its own, while a third
\* operation waits in the queue
C38_Witness ==
    /\ \A w \in Writers : wop[w] # NoOp
    /\ workChan # << >>
    /\ Cardinality({ wop[w].resultChan : w \in Writers }) = WriteConcurrency

(***************************************************************************)
(* C39. A writer never waits to post a result: a result channel has one    *)
(* slot and is sent on at most once, so whenever a writer holds an         *)
(* operation the slot of its result channel is free, whether or not the    *)
(* caller is still reading results.                                        *)
(***************************************************************************)
C39_PostNeverBlocks ==
    /\ \A c \in Chans :
           /\ Len(posts[c]) <= 1
           /\ Len(resultChan[c]) <= ResultChanCap
    /\ \A w \in Writers :
           wpc[w] = "execute" =>
               /\ posts[wop[w].resultChan] = << >>
               /\ Len(resultChan[wop[w].resultChan]) < ResultChanCap

\* a Write has returned on the error of its first entry while a writer
\* still holds the operation of its second entry
C39_Witness ==
    \E p \in Callers, w \in Writers :
        /\ Returned(p) /\ ret[p] # Nil /\ ai[p] = 1
        /\ Len(resultChannels[p]) = 2
        /\ wpc[w] = "execute"
        /\ wop[w].resultChan = resultChannels[p][2]

\* the result of the second entry was posted after the Write had returned and
\* stays unread, with every writer back at its select
C39_WitnessPosted ==
    \E p \in Callers :
        /\ Returned(p) /\ ret[p] # Nil /\ ai[p] = 1
        /\ Len(resultChannels[p]) = 2
        /\ Len(resultChan[resultChannels[p][2]]) = 1
        /\ \A w \in Writers : wpc[w] = "select"

\* the result channels of the caller's current Write call
OwnChans(p) == { resultChannels[p][i] : i \in 1 .. Len(resultChannels[p]) }

\* the errors sent on the caller's own result channels
OwnErrors(p) == { posts[c][1] : c \in { d \in OwnChans(p) : posts[d] # << >> } } \ {Nil}

(***************************************************************************)
(* C40. Write calls that run concurrently do not mix their results: no     *)
(* result channel belongs to two calls, a Write that has returned an error *)
(* has returned the InsertError of an error sent on one of its own result  *)
(* channels, and a Write that has returned nil has received nil from every *)
(* one of its own, whatever the inserts of the other call did.             *)
(***************************************************************************)
C40_ConcurrentWritesKeepOwnResults ==
    /\ \A p, q \in Callers : p # q => OwnChans(p) \cap OwnChans(q) = {}
    /\ \A p \in Callers :
           Returned(p) =>
               /\ ret[p] # Nil => \E e \in OwnErrors(p) : ret[p] = InsertError(e)
               /\ ret[p] = Nil =>
                      /\ OwnErrors(p) = {}
                      /\ \A c \in OwnChans(p) : posts[c] = << Nil >>
               /\ OwnErrors(p) # {} => ret[p] # Nil
               /\ OnRunningPool(p) => (ret[p] = Nil <=> Failing(p) = {})

\* a Write has returned nil although the Write call that began before it and
\* is still in progress has a failed insert
C40_Witness ==
    \E p, q \in Callers :
        /\ p # q
        /\ Returned(p) /\ OnRunningPool(p) /\ ret[p] = Nil
        /\ callNo[q] < callNo[p] /\ callNo[q] > 0
        /\ cpc[q] = "await" /\ Failing(q) # {}

\* a Write has returned its own error although the Write call that began
\* before it and is still in progress has only succeeding inserts
C40_WitnessFailing ==
    \E p, q \in Callers :
        /\ p # q
        /\ Returned(p) /\ OnRunningPool(p) /\ ret[p] # Nil
        /\ callNo[q] < callNo[p] /\ callNo[q] > 0
        /\ cpc[q] = "await" /\ Failing(q) = {}
        /\ \E c \in OwnChans(q) : posts[c] = << Nil >>

====
